---- MODULE Spec2Model ----
(***************************************************************************)
(* A model of ChemistryLib::PhreeqcIOData::PhreeqcIO (PhreeqcIO.cpp): the   *)
(* coupling of the transport vectors to the Phreeqc engine through an      *)
(* input script and a result table.  One behaviour is one coupling         *)
(* operation (executeInitialCalculation or doWaterChemistryCalculation)    *)
(* on one configuration of the orchestrator.                                *)
(***************************************************************************)
EXTENDS Integers, Sequences, FiniteSets, TLC

(***************************************************************************)
(* Bounds                                                                   *)
(***************************************************************************)
\* number of chemical systems, _mesh.getNumberOfBaseNodes()
NumSystems == 2
\* pH values and the numbers of the result table range over 0..PHMax;
\* amounts are fixed-point numbers in units of 10^-PHMax
PHMax == 1

Systems == 0 .. (NumSystems - 1)
\* the entries of a transport vector: the nodes of the chemical systems and
\* one more node of the mesh that is the global id of no system
Nodes == 0 .. NumSystems
Vals == 0 .. PHMax

(***************************************************************************)
(* Numbers                                                                  *)
(***************************************************************************)
\* std::pow(10, -pH) in units of 10^-PHMax (below one unit: 0)
Pow10Neg(p) == IF p <= PHMax THEN 10 ^ (PHMax - p) ELSE 0

\* -std::log10(c) of an amount c in units of 10^-PHMax; exact on the powers
\* of ten 10^0 .. 10^PHMax, the only amounts a hydrogen vector holds here
NegLog10(c) ==
    IF \E k \in 0 .. PHMax : c = 10 ^ k
    THEN PHMax - (CHOOSE k \in 0 .. PHMax : c = 10 ^ k)
    ELSE PHMax + 1

\* a token of a data row: its text is a number (kind "num"), a number
\* followed by other characters ("numjunk"), no number at all ("junk") or a
\* number no double holds ("huge")
Token(k, v) == [kind |-> k, val |-> v]

\* std::stod: the leading number of the text, or an exception
Stod(tok) ==
    CASE tok.kind = "num" -> [ok |-> TRUE, val |-> tok.val, what |-> "none"]
      [] tok.kind = "numjunk" -> [ok |-> TRUE, val |-> tok.val, what |-> "none"]
      [] tok.kind = "huge" -> [ok |-> FALSE, val |-> 0, what |-> "out_of_range"]
      [] OTHER -> [ok |-> FALSE, val |-> 0, what |-> "invalid_argument"]

(***************************************************************************)
(* Configuration: the constructor's arguments                               *)
(***************************************************************************)
Item(n, t) == [name |-> n, item_type |-> t]

SchemaCa == << Item("pH", "pH"), Item("pe", "pe"), Item("Ca", "Component") >>
SchemaH == << Item("pH", "pH"), Item("pe", "pe"), Item("H", "Component") >>
SchemaSolids ==
    << Item("Calcite", "EquilibriumPhase"), Item("Pyrite", "KineticReactant"),
       Item("sv", "SecondaryVariable") >>

\* the local_id -> global_id maps ("bulk_node_ids"): the permutations
IndexMaps ==
    { m \in [Systems -> Systems] : \A i, j \in Systems : m[i] = m[j] => i = j }

\* the identity and the reversal
PlainMaps ==
    { [i \in Systems |-> i], [i \in Systems |-> NumSystems - 1 - i] }

\* the entity side of a configuration: component names of every solution and
\* _process_id_to_component_name_map
EntitySides ==
    { [components |-> << "Ca" >>, process_map |-> << << 0, "Ca" >> >>],
      [components |-> << "Ca", "H" >>,
       process_map |-> << << 0, "Ca" >>, << 1, "H" >> >>],
      [components |-> << "Ca" >>,
       process_map |-> << << 0, "Ca" >>, << 1, "H" >> >>] }

\* the output side: Output::accepted_items and Output::dropped_item_ids
OutputSides ==
    { [accepted_items |-> SchemaCa, dropped_item_ids |-> {}],
      [accepted_items |-> SchemaCa, dropped_item_ids |-> {0}],
      [accepted_items |-> SchemaH, dropped_item_ids |-> {}],
      [accepted_items |-> SchemaSolids, dropped_item_ids |-> {1}] }

ConfigFields ==
    [chemical_system_map : IndexMaps,
     dump : BOOLEAN, surface : BOOLEAN, equilibrium_phases : BOOLEAN,
     kinetic_reactants : BOOLEAN, reaction_rates : BOOLEAN,
     user_punch : BOOLEAN,
     entities : EntitySides, output : OutputSides,
     ndebug : BOOLEAN]

PlainOutput == [accepted_items |-> SchemaCa, dropped_item_ids |-> {}]
PlainEntities == [components |-> << "Ca" >>, process_map |-> << << 0, "Ca" >> >>]

\* no equilibrium phase, kinetic reactant, rate or user punch / all of them
NoSolids(c) ==
    ~c.equilibrium_phases /\ ~c.kinetic_reactants /\ ~c.reaction_rates
    /\ ~c.user_punch
AllSolids(c) ==
    c.equilibrium_phases /\ c.kinetic_reactants /\ c.reaction_rates
    /\ c.user_punch

\* the configurations explored, in three families:
\*  - every combination of the optional blocks, with the plain schema;
\*  - every schema and drop-set in both builds, with or without the solid
\*    blocks and with or without surface and dump, and the schema of the
\*    solids with any of the solids missing, under the identity and the
\*    reversed index map;
\*  - every entity side with the schemas that hold a component
ScriptConfigs ==
    { c \in ConfigFields :
        c.output = PlainOutput /\ c.entities = PlainEntities /\ ~c.ndebug }
ReadConfigs ==
    { c \in ConfigFields :
        /\ c.chemical_system_map \in PlainMaps
        /\ c.entities = PlainEntities
        /\ \/ NoSolids(c)
           \/ AllSolids(c)
           \/ /\ c.output.accepted_items = SchemaSolids
              /\ c.reaction_rates = c.kinetic_reactants
        /\ c.dump = c.surface }
PassConfigs ==
    { c \in ConfigFields :
        /\ c.output.dropped_item_ids = {}
        /\ c.output.accepted_items \in {SchemaCa, SchemaH}
        /\ NoSolids(c) /\ ~c.dump /\ ~c.surface /\ ~c.ndebug }
Configs == ScriptConfigs \cup ReadConfigs \cup PassConfigs

(***************************************************************************)
(* State                                                                    *)
(***************************************************************************)
VARIABLES
    cfg,                  \* the constructor's arguments (never assigned later)
    op,                   \* the operation running: "none", "initial", "step"
    pc,                   \* the next stage of the operation, "done", "aborted"
    arg_dt,               \* the dt the operation was called with (0: none)
    dt,                   \* _dt, set by writeInputsToFile
    stages,               \* the stages started so far, in order
    fatal,                \* what OGS_FATAL (or a crash) reported, or NoFatal
    aqueous_solutions,    \* _aqueous_solutions, by local_id
    equilibrium_phases,   \* _equilibrium_phases: name and amount by global_id
    kinetic_reactants,    \* _kinetic_reactants: name and amount by global_id
    secondary_variables,  \* _user_punch->secondary_variables: name and value
    aqueous_solutions_prev, \* _dump->aqueous_solutions_prev
    process_solutions,    \* the transport vectors, by process id and global_id
    input_file,           \* the lines of _phreeqc_input_file
    result_file,          \* the lines of the engine's selected-output file
    dump_file,            \* whether the engine's dump file exists
    before_read,          \* the entities when readOutputsFromFile was entered
    twin_file,            \* result_file with other numbers in dropped columns
    twin_read,            \* the entities operator>> yields from twin_file
    passes,               \* one record per run of the set/update pass
    engine_calls,         \* the calls made on the engine, with their status
    points,               \* TemplatePoint objects a, b, c (MathLib)
    less                  \* what operator< returned for pairs of them

vars ==
    << cfg, op, pc, arg_dt, dt, stages, fatal, aqueous_solutions, equilibrium_phases,
       kinetic_reactants, secondary_variables, aqueous_solutions_prev,
       process_solutions, input_file, result_file, dump_file, before_read,
       twin_file, twin_read, passes, engine_calls, points, less >>

\* what a fatal error reports: its kind and, where the message holds them,
\* the system, the column and the token
NoToken == Token("none", 0)
NoFatal == [what |-> "none", system |-> -1, column |-> -1, token |-> NoToken]
Fatal(w, g, c) == [what |-> w, system |-> g, column |-> c, token |-> NoToken]

ProcessIds == 0 .. 1

Component(n, a) == [name |-> n, amount |-> a]

\* an aqueous solution as configured: pH, pe and one component per name
DefaultSolution(names) ==
    [pH |-> 0, pe |-> 0,
     components |-> [k \in 1 .. Len(names) |-> Component(names[k], 0)]]

\* an entity whose amount (value) is an array over the global ids
ArrayEntity(n) == [name |-> n, amount |-> [g \in Systems |-> 0]]

\* the transport vectors before the operation: a calcium vector and a
\* hydrogen vector whose entries differ from node to node
InitialVectors(seed) ==
    [p \in ProcessIds |->
        [g \in Nodes |->
            IF p = 0 THEN (seed + g) % (PHMax + 1)
            ELSE Pow10Neg((seed + g) % (PHMax + 1))]]

Entities ==
    [aqueous_solutions |-> aqueous_solutions,
     equilibrium_phases |-> equilibrium_phases,
     kinetic_reactants |-> kinetic_reactants,
     secondary_variables |-> secondary_variables]

\* the members as the constructor leaves them for the arguments cfg and
\* before any operation is called on the transport vectors: the dump holds
\* no previous solutions yet; a dump file of an earlier run may exist
Members ==
    /\ op = "none"
    /\ arg_dt = 0
    /\ dt = 0
    /\ stages = << >>
    /\ fatal = NoFatal
    /\ aqueous_solutions =
         [i \in Systems |-> DefaultSolution(cfg.entities.components)]
    /\ equilibrium_phases =
         IF cfg.equilibrium_phases THEN << ArrayEntity("Calcite") >> ELSE << >>
    /\ kinetic_reactants =
         IF cfg.kinetic_reactants THEN << ArrayEntity("Pyrite") >> ELSE << >>
    /\ secondary_variables =
         IF cfg.user_punch THEN << ArrayEntity("sv") >> ELSE << >>
    /\ aqueous_solutions_prev = << >>
    /\ input_file = << >>
    /\ result_file = << >>
    /\ dump_file \in (IF cfg.dump THEN {"absent", "present"} ELSE {"absent"})
    /\ before_read = Entities
    /\ twin_file = << >>
    /\ twin_read = Entities
    /\ passes = << >>

\* no point has been constructed and none compared
NoPoints == points = << >> /\ less = << >>

\* PhreeqcIO::PhreeqcIO after its member initializers, before its body, and
\* the transport vectors of the caller
Init ==
    /\ NoPoints
    /\ cfg \in Configs
    /\ \E seed \in (IF cfg \in PassConfigs THEN Vals ELSE {0}) :
          process_solutions = InitialVectors(seed)
    /\ Members
    /\ pc = "new"
    /\ engine_calls = << >>

(***************************************************************************)
(* setAqueousSolutionsOrUpdateProcessSolutions                              *)
(***************************************************************************)
\* std::find_if over the components: the first position holding the name,
\* 0 for components.end()
FindComponent(components, name) ==
    IF \E k \in 1 .. Len(components) : components[k].name = name
    THEN CHOOSE k \in 1 .. Len(components) :
            /\ components[k].name = name
            /\ \A j \in 1 .. (k - 1) : components[j].name # name
    ELSE 0

\* a fault: the transport vectors are indexed by the loop position
PassElement_localIndex(st, local_id, elem, status) ==
    LET pid == elem[1]
        name == elem[2]
        k == FindComponent(st.aq[local_id].components, name)
        st1 ==
            IF k = 0 THEN st
            ELSE IF status = "SettingAqueousSolutions"
            THEN [st EXCEPT !.aq[local_id].components[k].amount =
                                st.ps[pid][local_id],
                            !.vector_entries = @ \cup {<< pid, local_id >>},
                            !.components = @ \cup {<< local_id, name >>}]
            ELSE [st EXCEPT !.ps[pid][local_id] =
                                st.aq[local_id].components[k].amount,
                            !.vector_entries = @ \cup {<< pid, local_id >>},
                            !.components = @ \cup {<< local_id, name >>}]
    IN  IF name # "H" THEN st1
        ELSE IF status = "SettingAqueousSolutions"
        THEN [st1 EXCEPT !.aq[local_id].pH = NegLog10(st1.ps[pid][local_id]),
                         !.vector_entries = @ \cup {<< pid, local_id >>}]
        ELSE [st1 EXCEPT !.ps[pid][local_id] = Pow10Neg(st1.aq[local_id].pH),
                         !.vector_entries = @ \cup {<< pid, local_id >>}]

\* a fault: the updating pass writes the hydrogen value only where a
\* component is bound to the name
PassElement_updateBoundOnly(st, local_id, elem, status) ==
    LET global_id == cfg.chemical_system_map[local_id]
        pid == elem[1]
        name == elem[2]
        k == FindComponent(st.aq[local_id].components, name)
        st1 ==
            IF k = 0 THEN st
            ELSE IF status = "SettingAqueousSolutions"
            THEN [st EXCEPT !.aq[local_id].components[k].amount =
                                st.ps[pid][global_id],
                            !.vector_entries = @ \cup {<< pid, global_id >>},
                            !.components = @ \cup {<< local_id, name >>}]
            ELSE [st EXCEPT !.ps[pid][global_id] =
                                st.aq[local_id].components[k].amount,
                            !.vector_entries = @ \cup {<< pid, global_id >>},
                            !.components = @ \cup {<< local_id, name >>}]
    IN  IF name # "H" THEN st1
        ELSE IF status = "SettingAqueousSolutions"
        THEN (IF FALSE THEN st1
              ELSE [st1 EXCEPT
                      !.aq[local_id].pH = NegLog10(st1.ps[pid][global_id]),
                      !.vector_entries = @ \cup {<< pid, global_id >>}])
        ELSE (IF k = 0 THEN st1
              ELSE [st1 EXCEPT
                      !.ps[pid][global_id] = Pow10Neg(st1.aq[local_id].pH),
                      !.vector_entries = @ \cup {<< pid, global_id >>}])

\* a fault: the setting pass derives the pH only where a component is
\* bound to the name
PassElement_pHBoundOnly(st, local_id, elem, status) ==
    LET global_id == cfg.chemical_system_map[local_id]
        pid == elem[1]
        name == elem[2]
        k == FindComponent(st.aq[local_id].components, name)
        st1 ==
            IF k = 0 THEN st
            ELSE IF status = "SettingAqueousSolutions"
            THEN [st EXCEPT !.aq[local_id].components[k].amount =
                                st.ps[pid][global_id],
                            !.vector_entries = @ \cup {<< pid, global_id >>},
                            !.components = @ \cup {<< local_id, name >>}]
            ELSE [st EXCEPT !.ps[pid][global_id] =
                                st.aq[local_id].components[k].amount,
                            !.vector_entries = @ \cup {<< pid, global_id >>},
                            !.components = @ \cup {<< local_id, name >>}]
    IN  IF name # "H" THEN st1
        ELSE IF status = "SettingAqueousSolutions"
        THEN (IF k = 0 THEN st1
              ELSE [st1 EXCEPT
                      !.aq[local_id].pH = NegLog10(st1.ps[pid][global_id]),
                      !.vector_entries = @ \cup {<< pid, global_id >>}])
        ELSE (IF FALSE THEN st1
              ELSE [st1 EXCEPT
                      !.ps[pid][global_id] = Pow10Neg(st1.aq[local_id].pH),
                      !.vector_entries = @ \cup {<< pid, global_id >>}])

\* a fault: while updating, the value derived from the pH is written before
\* the amount of the component
PassElement_amountLast(st, local_id, elem, status) ==
    LET global_id == cfg.chemical_system_map[local_id]
        pid == elem[1]
        name == elem[2]
        k == FindComponent(st.aq[local_id].components, name)
        st1 ==
            IF name # "H" THEN st
            ELSE IF status = "SettingAqueousSolutions"
            THEN [st EXCEPT !.aq[local_id].pH = NegLog10(st.ps[pid][global_id]),
                            !.vector_entries = @ \cup {<< pid, global_id >>}]
            ELSE [st EXCEPT !.ps[pid][global_id] = Pow10Neg(st.aq[local_id].pH),
                            !.vector_entries = @ \cup {<< pid, global_id >>}]
    IN  IF k = 0 THEN st1
        ELSE IF status = "SettingAqueousSolutions"
        THEN [st1 EXCEPT !.aq[local_id].components[k].amount =
                             st1.ps[pid][global_id],
                         !.vector_entries = @ \cup {<< pid, global_id >>},
                         !.components = @ \cup {<< local_id, name >>}]
        ELSE [st1 EXCEPT !.ps[pid][global_id] =
                             st1.aq[local_id].components[k].amount,
                         !.vector_entries = @ \cup {<< pid, global_id >>},
                         !.components = @ \cup {<< local_id, name >>}]

\* a fault: the two cases of the switches are exchanged
PassElement_swapped(st, local_id, elem, status) ==
    LET global_id == cfg.chemical_system_map[local_id]
        pid == elem[1]
        name == elem[2]
        k == FindComponent(st.aq[local_id].components, name)
        st1 ==
            IF k = 0 THEN st
            ELSE IF status = "UpdatingProcessSolutions"
            THEN [st EXCEPT !.aq[local_id].components[k].amount =
                                st.ps[pid][global_id],
                            !.vector_entries = @ \cup {<< pid, global_id >>},
                            !.components = @ \cup {<< local_id, name >>}]
            ELSE [st EXCEPT !.ps[pid][global_id] =
                                st.aq[local_id].components[k].amount,
                            !.vector_entries = @ \cup {<< pid, global_id >>},
                            !.components = @ \cup {<< local_id, name >>}]
    IN  IF name # "H" THEN st1
        ELSE IF status = "UpdatingProcessSolutions"
        THEN [st1 EXCEPT !.aq[local_id].pH = NegLog10(st1.ps[pid][global_id]),
                         !.vector_entries = @ \cup {<< pid, global_id >>}]
        ELSE [st1 EXCEPT !.ps[pid][global_id] = Pow10Neg(st1.aq[local_id].pH),
                         !.vector_entries = @ \cup {<< pid, global_id >>}]

\* the body of the inner loop for one element of the process map: st holds
\* the solutions (aq), the transport vectors (ps), the entries of the
\* vectors that get or set was called on (vector_entries) and the
\* components whose amount was assigned or handed to set (components)
PassElement(st, local_id, elem, status) ==
    LET global_id == cfg.chemical_system_map[local_id]
        pid == elem[1]
        name == elem[2]
        k == FindComponent(st.aq[local_id].components, name)
        st1 ==
            IF k = 0 THEN st
            ELSE IF status = "SettingAqueousSolutions"
            THEN [st EXCEPT !.aq[local_id].components[k].amount =
                                st.ps[pid][global_id],
                            !.vector_entries = @ \cup {<< pid, global_id >>},
                            !.components = @ \cup {<< local_id, name >>}]
            ELSE [st EXCEPT !.ps[pid][global_id] =
                                st.aq[local_id].components[k].amount,
                            !.vector_entries = @ \cup {<< pid, global_id >>},
                            !.components = @ \cup {<< local_id, name >>}]
    IN  IF name # "H" THEN st1
        ELSE IF status = "SettingAqueousSolutions"
        THEN [st1 EXCEPT !.aq[local_id].pH = NegLog10(st1.ps[pid][global_id]),
                         !.vector_entries = @ \cup {<< pid, global_id >>}]
        ELSE [st1 EXCEPT !.ps[pid][global_id] = Pow10Neg(st1.aq[local_id].pH),
                         !.vector_entries = @ \cup {<< pid, global_id >>}]

\* the two loops, from element k of the map at system local_id onwards
RECURSIVE PassFrom(_, _, _, _)
PassFrom(st, local_id, k, status) ==
    IF local_id >= NumSystems THEN st
    ELSE IF k > Len(cfg.entities.process_map)
    THEN PassFrom(st, local_id + 1, 1, status)
    ELSE PassFrom(PassElement(st, local_id, cfg.entities.process_map[k], status),
                  local_id, k + 1, status)

setAqueousSolutionsOrUpdateProcessSolutions(aq, ps, status) ==
    PassFrom([aq |-> aq, ps |-> ps, vector_entries |-> {}, components |-> {}],
             0, 1, status)

\* what one run of the pass did: its direction, the vectors it was called
\* with, the vector entries and the components it went through
PassRecord(status, ps, st) ==
    [status |-> status, called_with |-> ps,
     vector_entries |-> st.vector_entries, components |-> st.components]

(***************************************************************************)
(* operator<<(std::ostream&, PhreeqcIO const&): the input script            *)
(***************************************************************************)
\* one line of the script: a keyword, the name of the entity it prints (or
\* "") and the number written after the keyword (0 when none is)
Line(key, name, idx) == [key |-> key, name |-> name, idx |-> idx]

\* equilibrium_phase.print(os, global_id) and kinetic_reactant.print(os,
\* global_id) for every entity of the vector
PrintEntities(key, entities, global_id) ==
    [k \in 1 .. Len(entities) |-> Line(key, entities[k].name, global_id)]

\* the members of *_dump read at line 346 when surface sites are configured:
\* with a dump, whether aqueous_solutions_prev is empty; without one the
\* read goes through a null pointer, and ub is what the build makes of it
\* ("crash", or a garbage vector read as "empty" or "filled")
PrevSeen(ub) ==
    IF cfg.dump
    THEN (IF aqueous_solutions_prev = << >> THEN "empty" ELSE "filled")
    ELSE ub

\* the lines written for one system before the surface block
SystemHead(local_id, steps) ==
    LET global_id == cfg.chemical_system_map[local_id]
    IN  << Line("SOLUTION", "", global_id + 1),
           Line("aqueous_solution", "", local_id) >>
        \o (IF cfg.dump /\ aqueous_solutions_prev # << >>
            THEN << Line("aqueous_solution_prev", "", local_id) >>
            ELSE << >>)
        \o << Line("USE solution none", "", 0),
              Line("END", "", 0),
              Line("USE solution", "", global_id + 1) >>
        \o (IF equilibrium_phases # << >>
            THEN << Line("EQUILIBRIUM_PHASES", "", global_id + 1) >>
                 \o PrintEntities("equilibrium_phase", equilibrium_phases,
                                  global_id)
            ELSE << >>)
        \o (IF kinetic_reactants # << >>
            THEN << Line("KINETICS", "", global_id + 1) >>
                 \o PrintEntities("kinetic_reactant", kinetic_reactants,
                                  global_id)
                 \o << Line("-steps", "", steps) >>
            ELSE << >>)

\* a fault: the solution is saved under the loop position
SurfaceBlock_saveLocal(local_id, prev) ==
    LET global_id == cfg.chemical_system_map[local_id]
        aqueous_solution_id ==
            IF prev = "empty" THEN global_id + 1
            ELSE NumSystems + global_id + 1
    IN  << Line("SURFACE", "", global_id + 1),
           Line("-equilibrate with solution", "", aqueous_solution_id),
           Line("-sites_units DENSITY", "", 0),
           Line("surface", "", 0),
           Line("SAVE solution", "", local_id + 1) >>

\* the surface block of one system, prev being what line 346 read
SurfaceBlock(local_id, prev) ==
    LET global_id == cfg.chemical_system_map[local_id]
        aqueous_solution_id ==
            IF prev = "empty" THEN global_id + 1
            ELSE NumSystems + global_id + 1
    IN  << Line("SURFACE", "", global_id + 1),
           Line("-equilibrate with solution", "", aqueous_solution_id),
           Line("-sites_units DENSITY", "", 0),
           Line("surface", "", 0),
           Line("SAVE solution", "", global_id + 1) >>

\* the loop over the systems from local_id on: the lines, and whether the
\* write crashed (then the lines end where it did)
RECURSIVE SystemBlocks(_, _, _)
SystemBlocks(local_id, steps, ub) ==
    IF local_id >= NumSystems THEN [lines |-> << >>, crashed |-> FALSE]
    ELSE IF cfg.surface /\ PrevSeen(ub) = "crash"
    THEN [lines |-> SystemHead(local_id, steps)
                    \o << Line("SURFACE", "",
                               cfg.chemical_system_map[local_id] + 1) >>,
          crashed |-> TRUE]
    ELSE LET rest == SystemBlocks(local_id + 1, steps, ub)
         IN  [lines |-> SystemHead(local_id, steps)
                        \o (IF cfg.surface
                            THEN SurfaceBlock(local_id, PrevSeen(ub))
                            ELSE << >>)
                        \o << Line("END", "", 0) >>
                        \o rest.lines,
              crashed |-> rest.crashed]

\* a fault: the rate definitions are written before the user punch
Serialize_ratesFirst(steps, ub) ==
    LET head ==
            << Line("knobs", "", 0), Line("output", "", 0) >>
            \o (IF cfg.reaction_rates
                THEN << Line("RATES", "", 0), Line("reaction_rates", "", 0) >>
                ELSE << >>)
            \o (IF cfg.user_punch THEN << Line("user_punch", "", 0) >>
                ELSE << >>)
        body == SystemBlocks(0, steps, ub)
    IN  [lines |-> head \o body.lines
                   \o (IF ~body.crashed /\ cfg.dump
                       THEN << Line("dump", "", NumSystems) >>
                       ELSE << >>),
         crashed |-> body.crashed]

\* the whole script
Serialize(steps, ub) ==
    LET head ==
            << Line("knobs", "", 0), Line("output", "", 0) >>
            \o (IF cfg.user_punch THEN << Line("user_punch", "", 0) >>
                ELSE << >>)
            \o (IF cfg.reaction_rates
                THEN << Line("RATES", "", 0), Line("reaction_rates", "", 0) >>
                ELSE << >>)
        body == SystemBlocks(0, steps, ub)
    IN  [lines |-> head \o body.lines
                   \o (IF ~body.crashed /\ cfg.dump
                       THEN << Line("dump", "", NumSystems) >>
                       ELSE << >>),
         crashed |-> body.crashed]

(***************************************************************************)
(* operator>>(std::istream&, PhreeqcIO&): the result table                  *)
(***************************************************************************)
\* int const num_skipped_lines = surface.empty() ? 1 : 2
num_skipped_lines == IF cfg.surface THEN 2 ELSE 1

\* a fault: the drop-set is not consulted, every column is converted
RECURSIVE AcceptFrom_noDrop(_, _, _)
AcceptFrom_noDrop(items, item_id, acc) ==
    IF item_id >= Len(items) THEN [ok |-> TRUE, values |-> acc, column |-> -1,
                                   what |-> "none"]
    ELSE LET d == Stod(items[item_id + 1])
         IN  IF d.ok
             THEN AcceptFrom_noDrop(items, item_id + 1, Append(acc, d.val))
             ELSE [ok |-> FALSE, values |-> acc, column |-> item_id,
                   what |-> d.what]

\* the first loop over the items of a row, from item_id (0-based) on: the
\* values of the columns not dropped, until a conversion throws
RECURSIVE AcceptFrom(_, _, _)
AcceptFrom(items, item_id, acc) ==
    IF item_id >= Len(items) THEN [ok |-> TRUE, values |-> acc, column |-> -1,
                                   what |-> "none"]
    ELSE IF item_id \in cfg.output.dropped_item_ids
    THEN AcceptFrom(items, item_id + 1, acc)
    ELSE LET d == Stod(items[item_id + 1])
         IN  IF d.ok THEN AcceptFrom(items, item_id + 1, Append(acc, d.val))
             ELSE [ok |-> FALSE, values |-> acc, column |-> item_id,
                   what |-> d.what]

\* BaseLib::findElementOrError over entities with a name: the position, or 0
\* where it reports the error
FindByName(entities, name) ==
    IF \E k \in 1 .. Len(entities) : entities[k].name = name
    THEN CHOOSE k \in 1 .. Len(entities) :
            /\ entities[k].name = name
            /\ \A j \in 1 .. (k - 1) : entities[j].name # name
    ELSE 0

\* a fault: a value whose entity is not found is skipped
RouteItem_skipMissing(e, local_id, global_id, item, value, ub) ==
    CASE item.item_type = "pH" ->
            [e EXCEPT !.aqueous_solutions[local_id].pH = value]
      [] item.item_type = "pe" ->
            [e EXCEPT !.aqueous_solutions[local_id].pe = value]
      [] item.item_type = "Component" ->
            LET k == FindByName(e.aqueous_solutions[local_id].components,
                                item.name)
            IN  IF k = 0 THEN e
                ELSE [e EXCEPT
                        !.aqueous_solutions[local_id].components[k].amount =
                            value]
      [] item.item_type = "EquilibriumPhase" ->
            LET k == FindByName(e.equilibrium_phases, item.name)
            IN  IF k = 0 THEN e
                ELSE [e EXCEPT !.equilibrium_phases[k].amount[global_id] =
                                  value]
      [] item.item_type = "KineticReactant" ->
            LET k == FindByName(e.kinetic_reactants, item.name)
            IN  IF k = 0 THEN e
                ELSE [e EXCEPT !.kinetic_reactants[k].amount[global_id] =
                                  value]
      [] item.item_type = "SecondaryVariable" ->
            IF ~cfg.user_punch /\ ~cfg.ndebug
            THEN [e EXCEPT !.fatal = Fatal("assert", -1, -1)]
            ELSE IF ~cfg.user_punch /\ ub = "crash"
            THEN [e EXCEPT !.fatal = Fatal("crash", -1, -1)]
            ELSE LET k == FindByName(e.secondary_variables, item.name)
                 IN  IF k = 0
                     THEN e
                     ELSE [e EXCEPT
                             !.secondary_variables[k].amount[global_id] =
                                 value]
      [] OTHER -> e

\* a fault: the amount of an equilibrium phase is stored for every system
RouteItem_wholeArray(e, local_id, global_id, item, value, ub) ==
    CASE item.item_type = "pH" ->
            [e EXCEPT !.aqueous_solutions[local_id].pH = value]
      [] item.item_type = "pe" ->
            [e EXCEPT !.aqueous_solutions[local_id].pe = value]
      [] item.item_type = "Component" ->
            LET k == FindByName(e.aqueous_solutions[local_id].components,
                                item.name)
            IN  IF k = 0 THEN [e EXCEPT !.fatal = Fatal("not_found", -1, -1)]
                ELSE [e EXCEPT
                        !.aqueous_solutions[local_id].components[k].amount =
                            value]
      [] item.item_type = "EquilibriumPhase" ->
            LET k == FindByName(e.equilibrium_phases, item.name)
            IN  IF k = 0 THEN [e EXCEPT !.fatal = Fatal("not_found", -1, -1)]
                ELSE [e EXCEPT !.equilibrium_phases[k].amount =
                                  [g \in Systems |-> value]]
      [] item.item_type = "KineticReactant" ->
            LET k == FindByName(e.kinetic_reactants, item.name)
            IN  IF k = 0 THEN [e EXCEPT !.fatal = Fatal("not_found", -1, -1)]
                ELSE [e EXCEPT !.kinetic_reactants[k].amount[global_id] =
                                  value]
      [] item.item_type = "SecondaryVariable" ->
            IF ~cfg.user_punch /\ ~cfg.ndebug
            THEN [e EXCEPT !.fatal = Fatal("assert", -1, -1)]
            ELSE IF ~cfg.user_punch /\ ub = "crash"
            THEN [e EXCEPT !.fatal = Fatal("crash", -1, -1)]
            ELSE LET k == FindByName(e.secondary_variables, item.name)
                 IN  IF k = 0
                     THEN [e EXCEPT !.fatal = Fatal("not_found", -1, -1)]
                     ELSE [e EXCEPT
                             !.secondary_variables[k].amount[global_id] =
                                 value]
      [] OTHER -> e

\* a fault: the value of pe is stored as the pH
RouteItem_peIntoPH(e, local_id, global_id, item, value, ub) ==
    CASE item.item_type = "pH" ->
            [e EXCEPT !.aqueous_solutions[local_id].pH = value]
      [] item.item_type = "pe" ->
            [e EXCEPT !.aqueous_solutions[local_id].pH = value]
      [] item.item_type = "Component" ->
            LET k == FindByName(e.aqueous_solutions[local_id].components,
                                item.name)
            IN  IF k = 0 THEN [e EXCEPT !.fatal = Fatal("not_found", -1, -1)]
                ELSE [e EXCEPT
                        !.aqueous_solutions[local_id].components[k].amount =
                            value]
      [] item.item_type = "EquilibriumPhase" ->
            LET k == FindByName(e.equilibrium_phases, item.name)
            IN  IF k = 0 THEN [e EXCEPT !.fatal = Fatal("not_found", -1, -1)]
                ELSE [e EXCEPT !.equilibrium_phases[k].amount[global_id] =
                                  value]
      [] item.item_type = "KineticReactant" ->
            LET k == FindByName(e.kinetic_reactants, item.name)
            IN  IF k = 0 THEN [e EXCEPT !.fatal = Fatal("not_found", -1, -1)]
                ELSE [e EXCEPT !.kinetic_reactants[k].amount[global_id] =
                                  value]
      [] item.item_type = "SecondaryVariable" ->
            IF ~cfg.user_punch /\ ~cfg.ndebug
            THEN [e EXCEPT !.fatal = Fatal("assert", -1, -1)]
            ELSE IF ~cfg.user_punch /\ ub = "crash"
            THEN [e EXCEPT !.fatal = Fatal("crash", -1, -1)]
            ELSE LET k == FindByName(e.secondary_variables, item.name)
                 IN  IF k = 0
                     THEN [e EXCEPT !.fatal = Fatal("not_found", -1, -1)]
                     ELSE [e EXCEPT
                             !.secondary_variables[k].amount[global_id] =
                                 value]
      [] OTHER -> e

\* one case of the switch: the entities e after the value is stored for the
\* schema entry item of the system (local_id, global_id); e.fatal is set
\* where the lookup fails
RouteItem(e, local_id, global_id, item, value, ub) ==
    CASE item.item_type = "pH" ->
            [e EXCEPT !.aqueous_solutions[local_id].pH = value]
      [] item.item_type = "pe" ->
            [e EXCEPT !.aqueous_solutions[local_id].pe = value]
      [] item.item_type = "Component" ->
            LET k == FindByName(e.aqueous_solutions[local_id].components,
                                item.name)
            IN  IF k = 0 THEN [e EXCEPT !.fatal = Fatal("not_found", -1, -1)]
                ELSE [e EXCEPT
                        !.aqueous_solutions[local_id].components[k].amount =
                            value]
      [] item.item_type = "EquilibriumPhase" ->
            LET k == FindByName(e.equilibrium_phases, item.name)
            IN  IF k = 0 THEN [e EXCEPT !.fatal = Fatal("not_found", -1, -1)]
                ELSE [e EXCEPT !.equilibrium_phases[k].amount[global_id] =
                                  value]
      [] item.item_type = "KineticReactant" ->
            LET k == FindByName(e.kinetic_reactants, item.name)
            IN  IF k = 0 THEN [e EXCEPT !.fatal = Fatal("not_found", -1, -1)]
                ELSE [e EXCEPT !.kinetic_reactants[k].amount[global_id] =
                                  value]
      [] item.item_type = "SecondaryVariable" ->
            IF ~cfg.user_punch /\ ~cfg.ndebug
            THEN [e EXCEPT !.fatal = Fatal("assert", -1, -1)]
            ELSE IF ~cfg.user_punch /\ ub = "crash"
            THEN [e EXCEPT !.fatal = Fatal("crash", -1, -1)]
            ELSE LET k == FindByName(e.secondary_variables, item.name)
                 IN  IF k = 0
                     THEN [e EXCEPT !.fatal = Fatal("not_found", -1, -1)]
                     ELSE [e EXCEPT
                             !.secondary_variables[k].amount[global_id] =
                                 value]
      [] OTHER -> e

\* output.accepted_items[item_id] of the second loop: the schema entry, or
\* past the end of the vector what the build reads there: ub = "crash", a
\* garbage entry no case matches ("ignore"), or one read as "pH"
SchemaEntry(item_id, ub) ==
    IF item_id < Len(cfg.output.accepted_items)
    THEN cfg.output.accepted_items[item_id + 1]
    ELSE Item("", ub)

\* the second loop over the accepted values, from item_id (0-based) on
RECURSIVE RouteFrom(_, _, _, _, _, _)
RouteFrom(e, local_id, global_id, values, item_id, ub) ==
    IF e.fatal # NoFatal \/ item_id >= Len(values) THEN e
    ELSE LET item == SchemaEntry(item_id, ub)
         IN  IF item.item_type = "crash"
             THEN [e EXCEPT !.fatal = Fatal("crash", -1, -1)]
             ELSE RouteFrom(RouteItem(e, local_id, global_id, item,
                                      values[item_id + 1], ub),
                            local_id, global_id, values, item_id + 1, ub)

\* a fault: the row is routed with the loop position as the global id
ReadRow_localId(e, local_id, items, ub) ==
    LET acc == AcceptFrom(items, 0, << >>)
    IN  IF ~acc.ok
        THEN [e EXCEPT !.fatal =
                [Fatal(acc.what, local_id, acc.column)
                    EXCEPT !.token = items[acc.column + 1]]]
        ELSE IF ~cfg.ndebug
                /\ Len(acc.values) # Len(cfg.output.accepted_items)
        THEN [e EXCEPT !.fatal = Fatal("assert", -1, -1)]
        ELSE RouteFrom(e, local_id, local_id, acc.values, 0, ub)

\* the body of the loop over the systems for one data row
ReadRow(e, local_id, items, ub) ==
    LET global_id == cfg.chemical_system_map[local_id]
        acc == AcceptFrom(items, 0, << >>)
    IN  IF ~acc.ok
        THEN [e EXCEPT !.fatal =
                [Fatal(acc.what, global_id, acc.column)
                    EXCEPT !.token = items[acc.column + 1]]]
        ELSE IF ~cfg.ndebug
                /\ Len(acc.values) # Len(cfg.output.accepted_items)
        THEN [e EXCEPT !.fatal = Fatal("assert", -1, -1)]
        ELSE RouteFrom(e, local_id, global_id, acc.values, 0, ub)

\* a fault: one line is skipped before every data row, surface or not
RECURSIVE ReadSystems_skipOne(_, _, _, _, _)
ReadSystems_skipOne(e, file, local_id, pos, ub) ==
    IF e.fatal # NoFatal \/ local_id >= NumSystems THEN e
    ELSE LET row == pos + 1
         IN  IF row > Len(file)
             THEN [e EXCEPT !.fatal =
                     Fatal("no_row", cfg.chemical_system_map[local_id], -1)]
             ELSE ReadSystems_skipOne(ReadRow(e, local_id, file[row], ub),
                                      file, local_id + 1, row + 1, ub)

\* the loop over the systems from local_id on; the stream stands before line
\* pos (1-based) of the file
RECURSIVE ReadSystems(_, _, _, _, _)
ReadSystems(e, file, local_id, pos, ub) ==
    IF e.fatal # NoFatal \/ local_id >= NumSystems THEN e
    ELSE LET row == pos + num_skipped_lines
         IN  IF row > Len(file)
             THEN [e EXCEPT !.fatal =
                     Fatal("no_row", cfg.chemical_system_map[local_id], -1)]
             ELSE ReadSystems(ReadRow(e, local_id, file[row], ub),
                              file, local_id + 1, row + 1, ub)

\* in >> phreeqc_io: the headline is skipped, then the systems are read
Deserialize(entities, file, ub) ==
    ReadSystems([aqueous_solutions |-> entities.aqueous_solutions,
                 equilibrium_phases |-> entities.equilibrium_phases,
                 kinetic_reactants |-> entities.kinetic_reactants,
                 secondary_variables |-> entities.secondary_variables,
                 fatal |-> NoFatal],
                file, 0, 2, ub)

(***************************************************************************)
(* The engine's files                                                       *)
(***************************************************************************)
\* the number of tokens of a data row the schema and the drop-set ask for
ExpectedTokens ==
    Len(cfg.output.accepted_items) + Cardinality(cfg.output.dropped_item_ids)

\* a line of len numbers that differ from column to column; the lines of
\* the systems start from numbers that differ from system to system
NumberLine(base, len) ==
    [j \in 1 .. len |-> Token("num", (base + j - 1) % (PHMax + 1))]

\* the texts in place of a number: a number followed by other characters,
\* no number at all, a number no double holds
BadKinds == {"numjunk", "junk", "huge"}

\* what may be wrong with a result table: nothing, the data row of one
\* system is one token short or one token long, the file ends before the
\* data row of one system ("cut"), or the last column that is not dropped
\* holds another text than a number in the data row of one system (a
\* number no double holds: of the first system)
Faults ==
    { [kind |-> "none", system |-> 0], [kind |-> "huge", system |-> 0] }
    \cup { [kind |-> k, system |-> i] :
             k \in {"short", "long", "cut", "numjunk", "junk"},
             i \in Systems }

\* the tables explored for a configuration: faulty ones for the family of
\* the schemas and builds
FaultsOf(c) ==
    IF c \in ReadConfigs THEN Faults ELSE { [kind |-> "none", system |-> 0] }

RowLen(fault, local_id) ==
    IF fault.kind = "short" /\ fault.system = local_id
    THEN ExpectedTokens - 1
    ELSE IF fault.kind = "long" /\ fault.system = local_id
    THEN ExpectedTokens + 1
    ELSE ExpectedTokens

\* the last column (from 0) of a row of full length that is not dropped
LastKeptColumn ==
    CHOOSE c \in 0 .. (ExpectedTokens - 1) :
        /\ c \notin cfg.output.dropped_item_ids
        /\ \A d \in (c + 1) .. (ExpectedTokens - 1) :
              d \in cfg.output.dropped_item_ids

\* the data row of the system local_id
DataRow(base, fault, local_id) ==
    LET row == NumberLine(base + local_id, RowLen(fault, local_id))
    IN  IF fault.kind \in BadKinds /\ fault.system = local_id
        THEN [row EXCEPT ![LastKeptColumn + 1] = Token(fault.kind, @.val)]
        ELSE row

\* the lines the engine writes for the systems from local_id on: the rows
\* before the reaction (one, or two with a surface), then the data row
RECURSIVE EngineLines(_, _, _)
EngineLines(base, fault, local_id) ==
    IF local_id >= NumSystems THEN << >>
    ELSE [k \in 1 .. num_skipped_lines |->
             NumberLine(base + local_id + 1, ExpectedTokens)]
         \o << DataRow(base, fault, local_id) >>
         \o EngineLines(base, fault, local_id + 1)

\* a selected-output file: the headline, then the lines of the systems
ResultFile(base, fault) ==
    LET lines == << [j \in 1 .. ExpectedTokens |-> Token("junk", 0)] >>
                 \o EngineLines(base, fault, 0)
    IN  IF fault.kind = "cut"
        THEN SubSeq(lines, 1,
                    1 + fault.system * (num_skipped_lines + 1)
                      + num_skipped_lines)
        ELSE lines

\* the same file with every number of a dropped column raised by shift
TwinFile(file, shift) ==
    [l \in 1 .. Len(file) |->
        [j \in 1 .. Len(file[l]) |->
            IF (j - 1) \in cfg.output.dropped_item_ids
               /\ file[l][j].kind = "num"
            THEN Token("num", (file[l][j].val + shift) % (PHMax + 1))
            ELSE file[l][j]]]

(***************************************************************************)
(* The operations                                                           *)
(***************************************************************************)
Dts == {1, 2}

\* the time steps explored for a configuration: more than one for the
\* family of the scripts
DtsOf(c) == IF c \in ScriptConfigs THEN Dts ELSE {1}

\* what a read through a null pointer or past the end of a vector may do
WriteOutcomes == {"crash", "empty", "filled"}
ReadOutcomes == {"crash", "ignore", "pH"}

\* a fault: the error is reported and the operation goes on to its last call
Abort_goesOn(f) == /\ fatal' = f
                   /\ pc' = "update"

\* OGS_FATAL (or a crash): the operation ends where it is
Abort(f) == /\ fatal' = f
            /\ pc' = "aborted"

\* a call on the engine and the status it returned ("none": it returns none)
EngineCall(c, s) == [call |-> c, status |-> s]

\* the calls of the constructor's body when the call named failed does not
\* succeed ("none": every call succeeds); SetDumpFileOn is called only with
\* a dump
ConstructorCalls(failed) ==
    LET Status(c) == IF failed = c THEN "failed" ELSE "IPQ_OK"
        create == << EngineCall("CreateIPhreeqc", Status("CreateIPhreeqc")) >>
        load == << EngineCall("LoadDatabase", Status("LoadDatabase")) >>
        selected == << EngineCall("SetSelectedOutputFileOn",
                                  Status("SetSelectedOutputFileOn")) >>
        dump == IF cfg.dump
                THEN << EngineCall("SetDumpFileOn", Status("SetDumpFileOn")) >>
                ELSE << >>
    IN  CASE failed = "CreateIPhreeqc" -> create
          [] failed = "LoadDatabase" -> create \o load
          [] failed = "SetSelectedOutputFileOn" -> create \o load \o selected
          [] OTHER -> create \o load \o selected \o dump

\* the calls of the constructor that may fail
ConstructorFailures ==
    {"none", "CreateIPhreeqc", "LoadDatabase", "SetSelectedOutputFileOn"}
    \cup (IF cfg.dump THEN {"SetDumpFileOn"} ELSE {})

\* the body of PhreeqcIO::PhreeqcIO: the status of SetDumpFileOn is not
\* looked at
Construct ==
    /\ pc = "new"
    /\ \E failed \in ConstructorFailures :
          /\ engine_calls' = ConstructorCalls(failed)
          /\ CASE failed = "CreateIPhreeqc" ->
                    Abort(Fatal("create_instance", -1, -1))
               [] failed = "LoadDatabase" ->
                    Abort(Fatal("load_database", -1, -1))
               [] failed = "SetSelectedOutputFileOn" ->
                    Abort(Fatal("selected_output_file", -1, -1))
               [] OTHER -> pc' = "idle" /\ UNCHANGED fatal
    /\ UNCHANGED << points, less, cfg, op, arg_dt, dt, stages, aqueous_solutions,
                    equilibrium_phases, kinetic_reactants, secondary_variables,
                    aqueous_solutions_prev, process_solutions, input_file,
                    result_file, dump_file, before_read, twin_file, twin_read,
                    passes >>

\* the engine writes a dump file: SetDumpFileOn(id, 1) was called and
\* succeeded
DumpFileOn ==
    \E k \in 1 .. Len(engine_calls) :
        engine_calls[k] = EngineCall("SetDumpFileOn", "IPQ_OK")

\* executeInitialCalculation is called
StartInitial ==
    /\ pc = "idle"
    /\ op' = "initial"
    /\ arg_dt' = 0
    /\ pc' = "set"
    /\ UNCHANGED << points, less, cfg, dt, stages, fatal, aqueous_solutions,
                    equilibrium_phases, kinetic_reactants, secondary_variables,
                    aqueous_solutions_prev, process_solutions, input_file,
                    result_file, dump_file, before_read, twin_file, twin_read,
                    passes,
                    engine_calls >>

\* doWaterChemistryCalculation is called with a time step
StartStep ==
    /\ pc = "idle"
    /\ op' = "step"
    /\ arg_dt' \in DtsOf(cfg)
    /\ pc' = "set"
    /\ UNCHANGED << points, less, cfg, dt, stages, fatal, aqueous_solutions,
                    equilibrium_phases, kinetic_reactants, secondary_variables,
                    aqueous_solutions_prev, process_solutions, input_file,
                    result_file, dump_file, before_read, twin_file, twin_read,
                    passes,
                    engine_calls >>

\* a fault: doWaterChemistryCalculation goes on to the script at once
AfterSet_noDump(o) == "write"

\* a fault: both operations go on to the dump file
AfterSet_alwaysDump(o) == "dump"

\* the call that follows the setting pass: setAqueousSolutionsPrevFromDumpFile
\* in doWaterChemistryCalculation, writeInputsToFile in
\* executeInitialCalculation
AfterSet(o) == IF o = "step" THEN "dump" ELSE "write"

\* setAqueousSolutionsOrUpdateProcessSolutions(.., SettingAqueousSolutions)
SetAqueousSolutions ==
    /\ pc = "set"
    /\ stages' = Append(stages, "set")
    /\ LET st == setAqueousSolutionsOrUpdateProcessSolutions(
                     aqueous_solutions, process_solutions,
                     "SettingAqueousSolutions")
       IN  /\ aqueous_solutions' = st.aq
           /\ process_solutions' = st.ps
           /\ passes' = Append(passes,
                               PassRecord("SettingAqueousSolutions",
                                          process_solutions, st))
    /\ pc' = AfterSet(op)
    /\ UNCHANGED << points, less, cfg, op, arg_dt, dt, fatal, equilibrium_phases,
                    kinetic_reactants, secondary_variables,
                    aqueous_solutions_prev, input_file,
                    result_file, dump_file, before_read, twin_file, twin_read,
                    engine_calls >>

\* Dump::readDumpFile(in, num_chemical_systems): one previous solution per
\* system
readDumpFile == [k \in 1 .. NumSystems |-> k - 1]

\* setAqueousSolutionsPrevFromDumpFile
SetAqueousSolutionsPrevFromDumpFile ==
    /\ pc = "dump"
    /\ IF ~cfg.dump
       THEN /\ pc' = "write"
            /\ UNCHANGED << stages, fatal, aqueous_solutions_prev >>
       ELSE /\ stages' = Append(stages, "load_dump")
            /\ IF dump_file = "absent"
               THEN /\ Abort(Fatal("open_dump", -1, -1))
                    /\ UNCHANGED aqueous_solutions_prev
               ELSE \E good \in BOOLEAN :
                       /\ aqueous_solutions_prev' = readDumpFile
                       /\ IF good
                          THEN /\ pc' = "write"
                               /\ UNCHANGED fatal
                          ELSE Abort(Fatal("read_dump", -1, -1))
    /\ UNCHANGED << points, less, cfg, op, arg_dt, dt, aqueous_solutions, equilibrium_phases,
                    kinetic_reactants, secondary_variables, process_solutions,
                    input_file, result_file, dump_file, before_read, twin_file,
                    twin_read, passes,
                    engine_calls >>

\* writeInputsToFile(dt): the file is opened, the script is streamed into it
\* and the stream is tested (a write may fail)
WriteInputsToFile ==
    /\ pc = "write"
    /\ stages' = Append(stages, "write")
    /\ \E opened \in BOOLEAN, written \in BOOLEAN, ub \in WriteOutcomes :
          IF ~opened
          THEN /\ Abort(Fatal("open_input", -1, -1))
               /\ UNCHANGED << dt, input_file >>
          ELSE LET script == Serialize(arg_dt, ub)
               IN  /\ dt' = arg_dt
                   /\ input_file' = script.lines
                   /\ IF script.crashed
                      THEN Abort(Fatal("crash", -1, -1))
                      ELSE IF ~written
                      THEN Abort(Fatal("write_input", -1, -1))
                      ELSE /\ pc' = "exec"
                           /\ UNCHANGED fatal
    /\ UNCHANGED << points, less, cfg, op, arg_dt, aqueous_solutions, equilibrium_phases,
                    kinetic_reactants, secondary_variables,
                    aqueous_solutions_prev, process_solutions, result_file,
                    dump_file, before_read, twin_file, twin_read, passes,
                    engine_calls >>

\* a fault: a failed run is reported, and the operation goes on to read
\* the result file that is there
Execute_noAbort ==
    /\ pc = "exec"
    /\ stages' = Append(stages, "execute")
    /\ \E status \in {"IPQ_OK", "failed"} :
          IF status # "IPQ_OK"
          THEN /\ engine_calls' =
                    engine_calls
                    \o << EngineCall("RunFile", status),
                          EngineCall("OutputErrorString", "none") >>
               /\ pc' = "read"
               /\ UNCHANGED << fatal, result_file, twin_file, dump_file >>
          ELSE \E base \in Vals, fault \in FaultsOf(cfg),
                  shift \in 1 .. PHMax :
                  /\ engine_calls' =
                       Append(engine_calls, EngineCall("RunFile", status))
                  /\ result_file' = ResultFile(base, fault)
                  /\ twin_file' = TwinFile(ResultFile(base, fault), shift)
                  /\ dump_file' = IF DumpFileOn THEN "present" ELSE dump_file
                  /\ pc' = "read"
                  /\ UNCHANGED fatal
    /\ UNCHANGED << points, less, cfg, op, arg_dt, dt, aqueous_solutions, equilibrium_phases,
                    kinetic_reactants, secondary_variables,
                    aqueous_solutions_prev, process_solutions, input_file,
                    before_read, twin_read, passes >>

\* execute: RunFile, and on a status other than IPQ_OK OutputErrorString and
\* OGS_FATAL; a run writes the selected-output file and, with the dump file
\* switched on, the dump file
Execute ==
    /\ pc = "exec"
    /\ stages' = Append(stages, "execute")
    /\ \E status \in {"IPQ_OK", "failed"} :
          IF status # "IPQ_OK"
          THEN /\ engine_calls' =
                    engine_calls
                    \o << EngineCall("RunFile", status),
                          EngineCall("OutputErrorString", "none") >>
               /\ Abort(Fatal("run_file", -1, -1))
               /\ UNCHANGED << result_file, twin_file, dump_file >>
          ELSE \E base \in Vals, fault \in FaultsOf(cfg),
                  shift \in 1 .. PHMax :
                  /\ engine_calls' =
                       Append(engine_calls, EngineCall("RunFile", status))
                  /\ result_file' = ResultFile(base, fault)
                  /\ twin_file' = TwinFile(ResultFile(base, fault), shift)
                  /\ dump_file' = IF DumpFileOn THEN "present" ELSE dump_file
                  /\ pc' = "read"
                  /\ UNCHANGED fatal
    /\ UNCHANGED << points, less, cfg, op, arg_dt, dt, aqueous_solutions, equilibrium_phases,
                    kinetic_reactants, secondary_variables,
                    aqueous_solutions_prev, process_solutions, input_file,
                    before_read, twin_read, passes >>

\* readOutputsFromFile: the file is opened and operator>> runs on it; the
\* test of the stream after it cannot fail, since operator>> returns only
\* after the last std::getline succeeded
ReadOutputsFromFile ==
    /\ pc = "read"
    /\ stages' = Append(stages, "read")
    /\ \E opened \in BOOLEAN, ub \in ReadOutcomes :
          IF ~opened
          THEN /\ Abort(Fatal("open_result", -1, -1))
               /\ UNCHANGED << aqueous_solutions, equilibrium_phases,
                               kinetic_reactants, secondary_variables,
                               before_read, twin_read >>
          ELSE LET got == Deserialize(Entities, result_file, ub)
                   twin == Deserialize(Entities, twin_file, ub)
               IN  /\ before_read' = Entities
                   /\ aqueous_solutions' = got.aqueous_solutions
                   /\ equilibrium_phases' = got.equilibrium_phases
                   /\ kinetic_reactants' = got.kinetic_reactants
                   /\ secondary_variables' = got.secondary_variables
                   /\ twin_read' =
                        [aqueous_solutions |-> twin.aqueous_solutions,
                         equilibrium_phases |-> twin.equilibrium_phases,
                         kinetic_reactants |-> twin.kinetic_reactants,
                         secondary_variables |-> twin.secondary_variables]
                   /\ IF got.fatal # NoFatal
                      THEN Abort(got.fatal)
                      ELSE /\ pc' = "update"
                           /\ UNCHANGED fatal
    /\ UNCHANGED << points, less, cfg, op, arg_dt, dt, aqueous_solutions_prev,
                    process_solutions, input_file, result_file, dump_file,
                    twin_file, passes,
                    engine_calls >>

\* setAqueousSolutionsOrUpdateProcessSolutions(.., UpdatingProcessSolutions)
UpdateProcessSolutions ==
    /\ pc = "update"
    /\ stages' = Append(stages, "update")
    /\ LET st == setAqueousSolutionsOrUpdateProcessSolutions(
                     aqueous_solutions, process_solutions,
                     "UpdatingProcessSolutions")
       IN  /\ process_solutions' = st.ps
           /\ passes' = Append(passes,
                               PassRecord("UpdatingProcessSolutions",
                                          process_solutions, st))
    /\ pc' = "done"
    /\ UNCHANGED << points, less, cfg, op, arg_dt, dt, fatal, aqueous_solutions,
                    equilibrium_phases, kinetic_reactants, secondary_variables,
                    aqueous_solutions_prev, input_file, result_file, dump_file,
                    before_read, twin_file, twin_read,
                    engine_calls >>

Next ==
    \/ Construct
    \/ StartInitial
    \/ StartStep
    \/ SetAqueousSolutions
    \/ SetAqueousSolutionsPrevFromDumpFile
    \/ WriteInputsToFile
    \/ Execute
    \/ ReadOutputsFromFile
    \/ UpdateProcessSolutions

Spec == Init /\ [][Next]_vars

(***************************************************************************)
(* The two passes on their own: the setting pass, then the updating pass,  *)
(* with no engine run and no read in between                               *)
(***************************************************************************)
\* the amounts on which NegLog10 and Pow10Neg are inverses of each other:
\* 0 and the powers of ten
AmountAt(j) == IF j = 0 THEN 0 ELSE 10 ^ (j - 1)

\* more process-to-component maps: two processes for one component, the
\* hydrogen process first, a process whose name no component has, two
\* hydrogen processes
PassEntitySides ==
    EntitySides
    \cup { [components |-> << "Ca" >>,
            process_map |-> << << 0, "Ca" >>, << 1, "Ca" >> >>],
           [components |-> << "Ca", "H" >>,
            process_map |-> << << 0, "H" >>, << 1, "Ca" >> >>],
           [components |-> << "Ca" >>,
            process_map |-> << << 0, "Ca" >>, << 1, "Mg" >> >>],
           [components |-> << "Ca" >>,
            process_map |-> << << 0, "H" >>, << 1, "H" >> >>] }

PassOnlyConfigs ==
    { [c EXCEPT !.entities = e] :
        c \in { d \in PassConfigs :
                  d.output = PlainOutput /\ d.entities = PlainEntities },
        e \in PassEntitySides }

\* transport vectors whose entries differ from node to node
TransportVectors(seed) ==
    [p \in ProcessIds |->
        [g \in Nodes |-> AmountAt((seed[p] + g) % (PHMax + 2))]]

\* an orchestrator whose constructor has returned
PassInit ==
    /\ NoPoints
    /\ cfg \in PassOnlyConfigs
    /\ \E seed \in [ProcessIds -> 0 .. (PHMax + 1)] :
          process_solutions = TransportVectors(seed)
    /\ Members
    /\ pc = "idle"
    /\ engine_calls = ConstructorCalls("none")

\* setAqueousSolutionsOrUpdateProcessSolutions(.., SettingAqueousSolutions)
\* called with the updating pass as the next call
SetPass ==
    /\ pc = "idle"
    /\ op' = "passes"
    /\ stages' = Append(stages, "set")
    /\ LET st == setAqueousSolutionsOrUpdateProcessSolutions(
                     aqueous_solutions, process_solutions,
                     "SettingAqueousSolutions")
       IN  /\ aqueous_solutions' = st.aq
           /\ process_solutions' = st.ps
           /\ passes' = Append(passes,
                               PassRecord("SettingAqueousSolutions",
                                          process_solutions, st))
    /\ pc' = "update"
    /\ UNCHANGED << points, less, cfg, arg_dt, dt, fatal, equilibrium_phases,
                    kinetic_reactants, secondary_variables,
                    aqueous_solutions_prev, input_file,
                    result_file, dump_file, before_read, twin_file, twin_read,
                    engine_calls >>

PassNext ==
    \/ SetPass
    \/ UpdateProcessSolutions

PassSpec == PassInit /\ [][PassNext]_vars

(***************************************************************************)
(* MathLib::TemplatePoint<T, DIM> and its operator<, on points of a        *)
(* floating-point T: a coordinate is a number or NaN                        *)
(***************************************************************************)
\* the default of the template parameter DIM
DIM == 3

\* the numbers a coordinate takes are 0 .. MaxCoord
MaxCoord == 1

\* a value of T: a number or NaN
Num(v) == [nan |-> FALSE, val |-> v]
NaN == [nan |-> TRUE, val |-> 0]
Coordinates == { Num(v) : v \in 0 .. MaxCoord } \cup { NaN }

\* x < y and x > y on T: false whenever one of the two is NaN
Lt(x, y) == ~x.nan /\ ~y.nan /\ x.val < y.val
Gt(x, y) == ~x.nan /\ ~y.nan /\ x.val > y.val

\* std::array<T, DIM> _x, indexed from 0
Points == [0 .. (DIM - 1) -> Coordinates]

\* a fault: the loop stops after the first dimension
LessFrom_firstOnly(a, b, i) ==
    IF i >= DIM THEN FALSE
    ELSE IF Gt(a[i], b[i]) THEN FALSE
    ELSE Lt(a[i], b[i])

\* the loop of operator< from dimension i onwards
RECURSIVE LessFrom(_, _, _)
LessFrom(a, b, i) ==
    IF i >= DIM THEN FALSE
    ELSE IF Gt(a[i], b[i]) THEN FALSE
    ELSE IF Lt(a[i], b[i]) THEN TRUE
    ELSE LessFrom(a, b, i + 1)

\* operator<(TemplatePoint const& a, TemplatePoint const& b)
Less(a, b) == LessFrom(a, b, 0)

\* no orchestrator exists
NoOrchestrator ==
    /\ cfg = "none" /\ op = "none" /\ pc = "none"
    /\ arg_dt = 0 /\ dt = 0
    /\ stages = << >> /\ fatal = NoFatal
    /\ aqueous_solutions = << >> /\ equilibrium_phases = << >>
    /\ kinetic_reactants = << >> /\ secondary_variables = << >>
    /\ aqueous_solutions_prev = << >> /\ process_solutions = << >>
    /\ input_file = << >> /\ result_file = << >> /\ dump_file = "absent"
    /\ before_read = << >> /\ twin_file = << >> /\ twin_read = << >>
    /\ passes = << >> /\ engine_calls = << >>

\* TemplatePoint(std::array<T, DIM> const& x), three times
PointInit ==
    /\ NoOrchestrator
    /\ points \in [a : Points, b : Points, c : Points]
    /\ less = << >>

\* operator< is called on the pairs of the three points
Compare ==
    /\ less = << >>
    /\ less' = [aa |-> Less(points.a, points.a),
                ab |-> Less(points.a, points.b),
                ba |-> Less(points.b, points.a),
                bc |-> Less(points.b, points.c),
                ac |-> Less(points.a, points.c)]
    /\ UNCHANGED << points, cfg, op, pc, arg_dt, dt, stages, fatal,
                    aqueous_solutions, equilibrium_phases, kinetic_reactants,
                    secondary_variables, aqueous_solutions_prev,
                    process_solutions, input_file, result_file, dump_file,
                    before_read, twin_file, twin_read, passes, engine_calls >>

PointNext == Compare

PointSpec == PointInit /\ [][PointNext]_vars

(***************************************************************************)
(* Properties                                                               *)
(***************************************************************************)
IsPrefix(s, t) == Len(s) <= Len(t) /\ \A k \in 1 .. Len(s) : s[k] = t[k]

Ran(stage) == \E k \in 1 .. Len(stages) : stages[k] = stage

\* the stages of the two operations, as the claims list them
StepStages ==
    IF cfg.dump
    THEN << "set", "load_dump", "write", "execute", "read", "update" >>
    ELSE << "set", "write", "execute", "read", "update" >>
InitialStages == << "set", "write", "execute", "read", "update" >>

\* C1: doWaterChemistryCalculation starts its stages in the order set, load
\* of the dump file (only with a dump configured), write, execute, read,
\* update, each at most once: at every moment the stages started are a
\* prefix of that list, the whole list once the operation is done, and
\* without a dump the dump file is never opened.
C1_StepStagesInOrder ==
    op = "step" =>
        /\ IsPrefix(stages, StepStages)
        /\ pc = "done" => stages = StepStages
        /\ ~cfg.dump => ~Ran("load_dump")
        /\ pc \in {"write", "exec", "read", "update", "done"} /\ cfg.dump
              => aqueous_solutions_prev # << >>

C1_Witness ==
    /\ op = "step" /\ pc = "done" /\ cfg.dump
    /\ stages = << "set", "load_dump", "write", "execute", "read", "update" >>

\* C2: executeInitialCalculation starts its stages in the order set, write
\* (with no dt), execute, read, update, each at most once, and never loads
\* the dump file, also with a dump configured and a dump file present.
C2_InitialStagesInOrder ==
    op = "initial" =>
        /\ IsPrefix(stages, InitialStages)
        /\ pc = "done" => stages = InitialStages
        /\ ~Ran("load_dump")
        /\ aqueous_solutions_prev = << >>
        /\ arg_dt = 0 /\ dt = 0

C2_Witness ==
    /\ op = "initial" /\ pc = "done" /\ cfg.dump /\ dump_file = "present"
    /\ stages = InitialStages

\* the data row the engine wrote for the system local_id: after the
\* headline every system takes num_skipped_lines lines and its data row
RowOf(local_id) ==
    result_file[1 + local_id * (num_skipped_lines + 1) + num_skipped_lines + 1]

\* the k-th column (k from 1, columns from 0) that is not in the drop-set
KeptColumn(k) ==
    CHOOSE c \in 0 .. (ExpectedTokens + 1) :
        /\ c \notin cfg.output.dropped_item_ids
        /\ Cardinality({d \in 0 .. (c - 1) :
                          d \notin cfg.output.dropped_item_ids}) = k - 1

\* the number the row of local_id holds for the k-th schema entry
RowValue(local_id, k) == RowOf(local_id)[KeptColumn(k) + 1].val

\* the table holds the headline and the lines of every system
FileComplete == Len(result_file) = 1 + NumSystems * (num_skipped_lines + 1)

\* every token of the line is the text of a number
AllNumbers(line) == \A j \in 1 .. Len(line) : line[j].kind = "num"

\* every data row of the table has the number of tokens the schema and the
\* drop-set ask for, each the text of a number
RowsWellFormed ==
    /\ FileComplete
    /\ \A i \in Systems :
          Len(RowOf(i)) = ExpectedTokens /\ AllNumbers(RowOf(i))

IsSolutionLine(l) == l.key = "SOLUTION"

\* the number written after SOLUTION for the block of local_id
SolutionNumber(local_id) ==
    SelectSeq(input_file, IsSolutionLine)[local_id + 1].idx

\* the entity of the vector with the name holds v at position g
HoldsAt(entities, name, g, v) ==
    \E k \in 1 .. Len(entities) :
        entities[k].name = name /\ entities[k].amount[g] = v

\* C3: index lockstep.  Once a well-formed table is read, for every system
\* local_id the global id g written into the script (SOLUTION g+1) is the
\* position at which the values of the local_id-th data row landed in the
\* arrays of the equilibrium phases, kinetic reactants and secondary
\* variables, for every index map, the reversed one included.
C3_IndexLockstep ==
    pc \in {"update", "done"} /\ RowsWellFormed =>
        \A i \in Systems :
            LET g == SolutionNumber(i) - 1
            IN  \A k \in 1 .. Len(cfg.output.accepted_items) :
                    LET item == cfg.output.accepted_items[k]
                        v == RowValue(i, k)
                    IN  /\ item.item_type = "EquilibriumPhase"
                            => HoldsAt(equilibrium_phases, item.name, g, v)
                        /\ item.item_type = "KineticReactant"
                            => HoldsAt(kinetic_reactants, item.name, g, v)
                        /\ item.item_type = "SecondaryVariable"
                            => HoldsAt(secondary_variables, item.name, g, v)

C3_Witness ==
    /\ pc = "done" /\ RowsWellFormed
    /\ cfg.output.accepted_items = SchemaSolids
    /\ cfg.chemical_system_map[0] # 0
    /\ equilibrium_phases[1].amount[cfg.chemical_system_map[0]]
         = RowValue(0, 1)
    /\ equilibrium_phases[1].amount[0] # RowValue(0, 1)

\* readOutputsFromFile opened the result file and operator>> ran on it
ReadRan == Ran("read") /\ fatal.what # "open_result"

\* every entity a schema entry names exists
SchemaResolves ==
    \A k \in 1 .. Len(cfg.output.accepted_items) :
        LET item == cfg.output.accepted_items[k]
        IN  /\ item.item_type = "Component"
                => \E j \in 1 .. Len(cfg.entities.components) :
                      cfg.entities.components[j] = item.name
            /\ item.item_type = "EquilibriumPhase" => cfg.equilibrium_phases
            /\ item.item_type = "KineticReactant" => cfg.kinetic_reactants
            /\ item.item_type = "SecondaryVariable" => cfg.user_punch

\* no entity value of the system local_id differs from what it was when the
\* table was opened
SystemUntouched(local_id) ==
    LET g == cfg.chemical_system_map[local_id]
    IN  /\ aqueous_solutions[local_id] = before_read.aqueous_solutions[local_id]
        /\ \A k \in 1 .. Len(equilibrium_phases) :
              equilibrium_phases[k].amount[g]
                = before_read.equilibrium_phases[k].amount[g]
        /\ \A k \in 1 .. Len(kinetic_reactants) :
              kinetic_reactants[k].amount[g]
                = before_read.kinetic_reactants[k].amount[g]
        /\ \A k \in 1 .. Len(secondary_variables) :
              secondary_variables[k].amount[g]
                = before_read.secondary_variables[k].amount[g]

\* C4: schema/row arity.  Reading a table in which a data row has fewer or
\* more tokens than len(OutputSchema) + len(dropSet) ends in a fatal error;
\* the operation never goes on with a truncated or overlong row.
C4_ArityMismatchIsFatal ==
    /\ ReadRan
    /\ SchemaResolves
    /\ FileComplete
    /\ \E i \in Systems : Len(RowOf(i)) # ExpectedTokens
    => pc = "aborted"

\* C5: fatal on mismatch without mutation.  When the data row of a system
\* has one token fewer than expected, reading fails with an error that
\* names that system, and no entity value of that system has changed.
C5_ShortRowFatalUnmutated ==
    \A i \in Systems :
        /\ ReadRan
        /\ SchemaResolves
        /\ FileComplete
        /\ Len(RowOf(i)) = ExpectedTokens - 1
        => /\ pc = "aborted"
           /\ fatal.system = cfg.chemical_system_map[i]
           /\ SystemUntouched(i)

\* the release build's part of C5: the short row is stored
C5_ReleaseStoresShortRow ==
    \A i \in Systems :
        /\ ReadRan
        /\ SchemaResolves
        /\ FileComplete
        /\ cfg.ndebug
        /\ Len(RowOf(i)) = ExpectedTokens - 1
        => pc = "aborted" /\ SystemUntouched(i)

\* C6: drop-set correctness.  Two result tables that differ only in the
\* numbers of the dropped columns, read from the same entities, leave the
\* same pH, pe, component amounts, phase and reactant amounts and secondary
\* variables for every system.
C6_DroppedColumnsNoInfluence == ReadRan => twin_read = Entities

C6_Witness ==
    /\ ReadRan /\ pc = "done" /\ RowsWellFormed
    /\ cfg.output.dropped_item_ids # {}
    /\ \E i \in Systems :
          \E d \in cfg.output.dropped_item_ids :
             twin_file[1 + i * (num_skipped_lines + 1) + num_skipped_lines + 1]
                      [d + 1].val # RowOf(i)[d + 1].val
    /\ aqueous_solutions # before_read.aqueous_solutions

\* writeInputsToFile opened the input file / wrote the whole script
WriteRan == Ran("write") /\ fatal.what \notin {"open_input", "write_input"}
WriteCompleted == WriteRan /\ (pc = "exec" \/ Ran("execute"))

IsEquilibrateLine(l) == l.key = "-equilibrate with solution"

\* C7: surface block numbering.  With surface sites configured the script is
\* written to its end, and the number after "-equilibrate with solution" of
\* the system with global id g is N + g + 1 with a previous-state dump
\* configured and g + 1 without one.
C7_SurfaceNumbering ==
    cfg.surface /\ WriteRan =>
        /\ WriteCompleted
        /\ Len(SelectSeq(input_file, IsEquilibrateLine)) = NumSystems
        /\ \A i \in Systems :
              SelectSeq(input_file, IsEquilibrateLine)[i + 1].idx
                = IF cfg.dump
                  THEN NumSystems + cfg.chemical_system_map[i] + 1
                  ELSE cfg.chemical_system_map[i] + 1

\* the part of C7 that the null dump alone decides: without a dump the
\* script with surface sites is written to its end
C7_SurfaceWithoutDumpCompletes ==
    cfg.surface /\ ~cfg.dump /\ WriteRan => WriteCompleted

NumberedKeys ==
    {"SOLUTION", "USE solution", "EQUILIBRIUM_PHASES", "KINETICS", "SURFACE",
     "SAVE solution"}

\* the system whose block holds line l of the script: the blocks start at
\* the SOLUTION lines, in local_id order
Owner(l) ==
    Cardinality({m \in 1 .. l : input_file[m].key = "SOLUTION"}) - 1

\* C8: numbering rule.  Every numbered directive (SOLUTION, USE solution,
\* EQUILIBRIUM_PHASES, KINETICS, SURFACE, SAVE solution) written for the
\* system local_id carries global_id + 1, and no two systems are written
\* with the same block number.
C8_BlockNumbers ==
    /\ \A l \in 1 .. Len(input_file) :
          input_file[l].key \in NumberedKeys =>
              /\ Owner(l) \in Systems
              /\ input_file[l].idx = cfg.chemical_system_map[Owner(l)] + 1
    /\ \A l, m \in 1 .. Len(input_file) :
          /\ input_file[l].key = "SOLUTION"
          /\ input_file[m].key = "SOLUTION"
          /\ l # m
          => input_file[l].idx # input_file[m].idx

C8_Witness ==
    /\ pc = "exec"
    /\ cfg.surface /\ cfg.equilibrium_phases /\ cfg.kinetic_reactants
    /\ cfg.chemical_system_map[0] # 0
    /\ \E l \in 1 .. Len(input_file) :
          /\ input_file[l].key = "SAVE solution"
          /\ Owner(l) = 0
          /\ input_file[l].idx = cfg.chemical_system_map[0] + 1

\* a block of the script as the claim lists it: the keyword of each line and
\* whether the configuration asks for it
Part(key, on) == [key |-> key, on |-> on]
IsOn(part) == part.on

HeadParts ==
    << Part("knobs", TRUE), Part("output", TRUE),
       Part("user_punch", cfg.user_punch),
       Part("RATES", cfg.reaction_rates),
       Part("reaction_rates", cfg.reaction_rates) >>

SystemParts ==
    << Part("SOLUTION", TRUE), Part("aqueous_solution", TRUE),
       Part("aqueous_solution_prev",
            cfg.dump /\ aqueous_solutions_prev # << >>),
       Part("USE solution none", TRUE), Part("END", TRUE),
       Part("USE solution", TRUE),
       Part("EQUILIBRIUM_PHASES", cfg.equilibrium_phases),
       Part("equilibrium_phase", cfg.equilibrium_phases),
       Part("KINETICS", cfg.kinetic_reactants),
       Part("kinetic_reactant", cfg.kinetic_reactants),
       Part("-steps", cfg.kinetic_reactants),
       Part("SURFACE", cfg.surface),
       Part("-equilibrate with solution", cfg.surface),
       Part("-sites_units DENSITY", cfg.surface),
       Part("surface", cfg.surface),
       Part("SAVE solution", cfg.surface),
       Part("END", TRUE) >>

TailParts == << Part("dump", cfg.dump) >>

RECURSIVE Repeat(_, _)
Repeat(parts, n) == IF n = 0 THEN << >> ELSE parts \o Repeat(parts, n - 1)

ExpectedKeys ==
    LET parts == SelectSeq(HeadParts \o Repeat(SystemParts, NumSystems)
                           \o TailParts, IsOn)
    IN  [l \in 1 .. Len(parts) |-> parts[l].key]

IsBodyLine(l) == l.key = "aqueous_solution"
IsStepsLine(l) == l.key = "-steps"

\* C9: script block order.  A script written to its end holds the knobs, the
\* output selection, the user punch (if configured), RATES (if rates are
\* configured), then for each system in local_id order SOLUTION with the
\* solution (and the previous solution if the dump holds any), the reset,
\* the re-selection, EQUILIBRIUM_PHASES (if any), KINETICS with -steps dt (if
\* any), SURFACE and SAVE (if any), END, and at the end the dump's lines if
\* and only if a dump is configured.
C9_ScriptOrder ==
    WriteCompleted =>
        /\ [l \in 1 .. Len(input_file) |-> input_file[l].key] = ExpectedKeys
        /\ \A i \in Systems :
              SelectSeq(input_file, IsBodyLine)[i + 1].idx = i
        /\ \A k \in 1 .. Len(SelectSeq(input_file, IsStepsLine)) :
              SelectSeq(input_file, IsStepsLine)[k].idx = arg_dt

C9_Witness ==
    /\ pc = "exec" /\ op = "step"
    /\ cfg.user_punch /\ cfg.reaction_rates /\ cfg.equilibrium_phases
    /\ cfg.kinetic_reactants /\ cfg.surface /\ cfg.dump
    /\ aqueous_solutions_prev # << >>
    /\ Len(input_file) = Len(ExpectedKeys)

\* the schema is (pH, pe, Component c) with no dropped column, and the
\* operation is done on a table of well-formed rows
RoutingCase ==
    /\ pc = "done" /\ RowsWellFormed
    /\ cfg.output.dropped_item_ids = {}
    /\ Len(cfg.output.accepted_items) = 3
    /\ cfg.output.accepted_items[1].item_type = "pH"
    /\ cfg.output.accepted_items[2].item_type = "pe"
    /\ cfg.output.accepted_items[3].item_type = "Component"

\* the solution of local_id holds the three values of its row
SolutionHoldsRow(i) ==
    LET c == cfg.output.accepted_items[3].name
        sol == aqueous_solutions[i]
    IN  /\ sol.pH = RowValue(i, 1)
        /\ sol.pe = RowValue(i, 2)
        /\ \E k \in 1 .. Len(sol.components) :
              /\ sol.components[k].name = c
              /\ sol.components[k].amount = RowValue(i, 3)

\* every process mapped to the name holds v at the global id of local_id
VectorsHold(name, i, v) ==
    \A k \in 1 .. Len(cfg.entities.process_map) :
        cfg.entities.process_map[k][2] = name =>
            process_solutions[cfg.entities.process_map[k][1]]
                             [cfg.chemical_system_map[i]] = v

\* C10 as claimed: end-to-end routing.  With the schema (pH, pe, Component
\* c) and no drops, after the read and the update every system holds the
\* three values of its row, and the transport vector of the process mapped
\* to c holds the amount of c at the system's global id.
C10_EndToEndRouting ==
    RoutingCase =>
        \A i \in Systems :
            /\ SolutionHoldsRow(i)
            /\ VectorsHold(cfg.output.accepted_items[3].name, i,
                           RowValue(i, 3))

\* C10 as amended: the same for every component c other than "H"; the
\* vector of a process mapped to "H" holds 10^(-pH) of the row instead.
C10_EndToEndRoutingAmended ==
    RoutingCase =>
        \A i \in Systems :
            /\ SolutionHoldsRow(i)
            /\ cfg.output.accepted_items[3].name # "H"
                  => VectorsHold(cfg.output.accepted_items[3].name, i,
                                 RowValue(i, 3))
            /\ VectorsHold("H", i, Pow10Neg(RowValue(i, 1)))

C10_Witness ==
    /\ RoutingCase
    /\ cfg.chemical_system_map[0] # 0
    /\ cfg.output.accepted_items[3].name = "Ca"
    /\ process_solutions[0][cfg.chemical_system_map[0]] = RowValue(0, 3)
    /\ process_solutions[0][0] # RowValue(0, 3)
    /\ aqueous_solutions[0].pH = RowValue(0, 1)

\* the case the amendment is about is reached: a component "H" that is read
\* from the table and mapped to a process
C10_HydrogenCase ==
    /\ RoutingCase
    /\ cfg.output.accepted_items[3].name = "H"
    /\ \E k \in 1 .. Len(cfg.entities.process_map) :
          cfg.entities.process_map[k][2] = "H"

(***************************************************************************)
(* Properties of the two passes                                             *)
(***************************************************************************)
\* the setting pass and then the updating pass have run, nothing else
PassesDone == op = "passes" /\ pc = "done"

\* C11: round trip of set then update.  The setting pass followed by the
\* updating pass, with no engine run and no read in between, leaves every
\* entry of the transport vectors at its original value, the hydrogen entry
\* included, for every process-to-component map, also one in which two
\* processes map to the same component name.
C11_SetThenUpdateRoundTrip ==
    PassesDone => process_solutions = passes[1].called_with

\* no two elements of the process map hold the same name
NamesDistinct ==
    \A j, k \in 1 .. Len(cfg.entities.process_map) :
        cfg.entities.process_map[j][2] = cfg.entities.process_map[k][2]
            => j = k

\* the part of C11 the code keeps: the round trip for maps of distinct names
C11_RoundTripDistinctNames ==
    PassesDone /\ NamesDistinct => process_solutions = passes[1].called_with

\* C12: set/update lockstep.  For the same index map and process map the
\* entries (process, global_id) the setting pass reads are the entries the
\* updating pass writes, and the components (system, name) assigned while
\* setting are the components pushed while updating.
C12_SetUpdateLockstep ==
    PassesDone =>
        /\ passes[1].status = "SettingAqueousSolutions"
        /\ passes[2].status = "UpdatingProcessSolutions"
        /\ passes[1].vector_entries = passes[2].vector_entries
        /\ passes[1].components = passes[2].components

C12_Witness ==
    /\ PassesDone
    /\ cfg.chemical_system_map[0] # 0
    /\ \E i \in Systems :
          /\ << 1, cfg.chemical_system_map[i] >> \in passes[2].vector_entries
          /\ << i, "H" >> \notin passes[2].components
          /\ << i, "Ca" >> \in passes[2].components

\* the last element of the process map that names the hydrogen process
IsLastHydrogen(k) ==
    /\ cfg.entities.process_map[k][2] = "H"
    /\ \A j \in (k + 1) .. Len(cfg.entities.process_map) :
          cfg.entities.process_map[j][2] # "H"

\* C20: once the setting pass has run, the pH of every system is -log10 of
\* the hydrogen transport value at the global id of the system, also where
\* the solution has no component of the name of the hydrogen process.
C20_SetDerivesPH ==
    op = "passes" /\ Len(passes) >= 1 =>
        \A i \in Systems :
            \A k \in 1 .. Len(cfg.entities.process_map) :
                IsLastHydrogen(k) =>
                    aqueous_solutions[i].pH =
                        NegLog10(passes[1].called_with
                                     [cfg.entities.process_map[k][1]]
                                     [cfg.chemical_system_map[i]])

C20_Witness ==
    /\ op = "passes" /\ Len(passes) >= 1
    /\ cfg.entities.components = << "Ca" >>
    /\ cfg.entities.process_map = << << 0, "Ca" >>, << 1, "H" >> >>
    /\ cfg.chemical_system_map[0] # 0
    /\ aqueous_solutions[0].pH # aqueous_solutions[1].pH
    /\ aqueous_solutions[0].pH
         = NegLog10(passes[1].called_with[1][cfg.chemical_system_map[0]])
    /\ aqueous_solutions[0].pH # NegLog10(passes[1].called_with[1][0])

(***************************************************************************)
(* Properties of the engine calls                                           *)
(***************************************************************************)
\* the positions of the log that hold a call of the name
CallsOf(c) == { k \in 1 .. Len(engine_calls) : engine_calls[k].call = c }

\* C13: engine failure is fatal without retry.  In every coupling operation
\* the engine is run at most once; when the run returns a status other than
\* success, the engine's diagnostic text is output and the operation is
\* aborted: the result file is not read and the transport vectors are not
\* updated afterwards.
C13_EngineFailureFatal ==
    /\ Cardinality(CallsOf("RunFile")) <= 1
    /\ Ran("execute") <=> CallsOf("RunFile") # {}
    /\ \A k \in CallsOf("RunFile") :
          engine_calls[k].status # "IPQ_OK" =>
              /\ Len(engine_calls) = k + 1
              /\ engine_calls[k + 1].call = "OutputErrorString"
              /\ pc = "aborted" /\ fatal.what = "run_file"
              /\ ~Ran("read") /\ ~Ran("update")
              /\ stages[Len(stages)] = "execute"
              /\ process_solutions = passes[1].called_with
              /\ Len(passes) = 1
    /\ \A k \in CallsOf("OutputErrorString") :
          k > 1 /\ engine_calls[k - 1] = EngineCall("RunFile", "failed")

C13_Witness ==
    /\ op = "step" /\ pc = "aborted" /\ fatal.what = "run_file"
    /\ engine_calls[Len(engine_calls)].call = "OutputErrorString"
    /\ engine_calls[Len(engine_calls) - 1] = EngineCall("RunFile", "failed")
    /\ stages[Len(stages)] = "execute"

\* the calls of the constructor as the claim lists them
ExpectedConstruction ==
    << "CreateIPhreeqc", "LoadDatabase", "SetSelectedOutputFileOn" >>
    \o (IF cfg.dump THEN << "SetDumpFileOn" >> ELSE << >>)

CallNames == [k \in 1 .. Len(engine_calls) |-> engine_calls[k].call]

\* the constructor made its calls in the order listed, each one after the
\* success of the one before, and an operation is called only after all
ConstructionInOrder ==
    /\ IsPrefix(CallNames, ExpectedConstruction)
       \/ IsPrefix(ExpectedConstruction, CallNames)
    /\ pc # "new" => engine_calls # << >>
    /\ \A k \in 1 .. Len(engine_calls) :
          k < Len(ExpectedConstruction) /\ k < Len(engine_calls)
              => engine_calls[k].status = "IPQ_OK"
    /\ pc = "idle" \/ op # "none" => IsPrefix(ExpectedConstruction, CallNames)

\* the call failed, and nothing but the fatal abort followed
FailedFatally(k) ==
    engine_calls[k].status = "failed" =>
        /\ pc = "aborted" /\ op = "none" /\ stages = << >>
        /\ fatal.what \in {"create_instance", "load_database",
                            "selected_output_file", "dump_file"}
        /\ Len(engine_calls) = k

\* C14: initialization errors are all fatal.  The constructor creates the
\* engine instance, loads the database, switches the result file on and,
\* only with a dump configured, switches the dump file on, in that order; a
\* failure of any of the four calls aborts fatally, and no coupling
\* operation runs on an orchestrator whose initialization failed.
C14_InitializationErrorsFatal ==
    /\ ConstructionInOrder
    /\ \A k \in 1 .. Len(engine_calls) :
          k <= Len(ExpectedConstruction) => FailedFatally(k)

\* the part of C14 the code keeps: the order of the calls, and the fatal
\* abort for the three calls whose status is looked at
C14_CheckedCallsFatal ==
    /\ ConstructionInOrder
    /\ \A k \in 1 .. Len(engine_calls) : k <= 3 => FailedFatally(k)

(***************************************************************************)
(* Properties of the deserializer                                           *)
(***************************************************************************)
\* the entity the schema entry names exists
Resolves(item) ==
    /\ item.item_type = "Component"
          => \E j \in 1 .. Len(cfg.entities.components) :
                cfg.entities.components[j] = item.name
    /\ item.item_type = "EquilibriumPhase" => cfg.equilibrium_phases
    /\ item.item_type = "KineticReactant" => cfg.kinetic_reactants
    /\ item.item_type = "SecondaryVariable" => cfg.user_punch

\* the first schema entry (from 1) whose entity does not exist
MissAt ==
    CHOOSE k \in 1 .. Len(cfg.output.accepted_items) :
        /\ ~Resolves(cfg.output.accepted_items[k])
        /\ \A j \in 1 .. (k - 1) : Resolves(cfg.output.accepted_items[j])

\* the value the entities ents hold for the schema entry and the system
\* local_id, << >> where the entity does not exist
Holds(ents, local_id, item) ==
    LET g == cfg.chemical_system_map[local_id]
        sol == ents.aqueous_solutions[local_id]
        At(entities) ==
            { << entities[k].amount[g] >> :
                k \in { j \in 1 .. Len(entities) :
                          entities[j].name = item.name } }
    IN  CASE item.item_type = "pH" -> {<< sol.pH >>}
          [] item.item_type = "pe" -> {<< sol.pe >>}
          [] item.item_type = "Component" ->
                { << sol.components[k].amount >> :
                    k \in { j \in 1 .. Len(sol.components) :
                              sol.components[j].name = item.name } }
          [] item.item_type = "EquilibriumPhase" -> At(ents.equilibrium_phases)
          [] item.item_type = "KineticReactant" -> At(ents.kinetic_reactants)
          [] item.item_type = "SecondaryVariable" ->
                At(ents.secondary_variables)

\* C15: a named lookup miss is fatal.  When a schema entry of type
\* Component, EquilibriumPhase, KineticReactant or SecondaryVariable names
\* an entity that does not exist, reading a well-formed table is aborted at
\* that entry of the first row: the entries before it hold the values of
\* the row, no later entry and no later system is written, and the
\* operation does not go on.  (Without any user punch the abort of a
\* SecondaryVariable entry is the assertion or the null pointer.)
C15_LookupMissIsFatal ==
    ReadRan /\ RowsWellFormed /\ ~SchemaResolves =>
        /\ pc = "aborted" /\ ~Ran("update")
        /\ fatal.what \in {"not_found", "assert", "crash"}
        /\ fatal.what \in {"assert", "crash"}
              => /\ cfg.output.accepted_items[MissAt].item_type
                      = "SecondaryVariable"
                 /\ ~cfg.user_punch
        /\ \A k \in 1 .. Len(cfg.output.accepted_items) :
              LET item == cfg.output.accepted_items[k]
              IN  IF k < MissAt
                  THEN Holds(Entities, 0, item) = {<< RowValue(0, k) >>}
                  ELSE Holds(Entities, 0, item) = Holds(before_read, 0, item)
        /\ \A i \in Systems \ {0} : SystemUntouched(i)

C15_Witness ==
    /\ ReadRan /\ RowsWellFormed /\ ~SchemaResolves
    /\ fatal.what = "not_found"
    /\ cfg.output.accepted_items[MissAt].item_type = "KineticReactant"
    /\ cfg.user_punch
    /\ Holds(Entities, 0, cfg.output.accepted_items[1])
         # Holds(before_read, 0, cfg.output.accepted_items[1])
    /\ Holds(Entities, 1, cfg.output.accepted_items[3])
         # {<< RowValue(1, 3) >>}

\* the arrays over the systems
Arrays == << equilibrium_phases, kinetic_reactants, secondary_variables >>

ArraysOf(ents) ==
    << ents.equilibrium_phases, ents.kinetic_reactants,
       ents.secondary_variables >>

\* the schema entries (from 1) of the three array types
ArrayEntries ==
    { k \in 1 .. Len(cfg.output.accepted_items) :
        cfg.output.accepted_items[k].item_type
            \in {"EquilibriumPhase", "KineticReactant", "SecondaryVariable"} }

\* the table holds a data row for the system local_id, with a token for the
\* k-th schema entry
RowHolds(local_id, k) ==
    /\ 1 + local_id * (num_skipped_lines + 1) + num_skipped_lines + 1
          <= Len(result_file)
    /\ KeptColumn(k) + 1 <= Len(RowOf(local_id))

\* every array entry at the global id of a system is what it was when the
\* table was opened, or the token of that system's row for the entity
ArraysFromOwnRows ==
    \A i \in Systems :
        \A k \in ArrayEntries :
            LET item == cfg.output.accepted_items[k]
            IN  \/ Holds(Entities, i, item) = Holds(before_read, i, item)
                \/ /\ RowHolds(i, k)
                   /\ Holds(Entities, i, item) = {<< RowValue(i, k) >>}

\* C16: the amounts of the equilibrium phases and kinetic reactants and the
\* values of the secondary variables are changed by the deserializer alone:
\* no step of the constructor, the passes, the serializer, the dump loader
\* or the engine run changes an entry, and the deserializer changes, for
\* the row of a system, only entries at the global id of that system.
C16_OnlyDeserializerMutates ==
    /\ [][Arrays' # Arrays => pc = "read" /\ Ran("read")']_vars
    /\ [](ArraysFromOwnRows /\ (~ReadRan => ArraysOf(before_read) = Arrays))

C16_Witness ==
    /\ ReadRan /\ fatal.what = "no_row"
    /\ Len(result_file) > 1 + num_skipped_lines
    /\ cfg.output.accepted_items = SchemaSolids /\ AllSolids(cfg)
    /\ cfg.chemical_system_map[0] # 0
    /\ \A k \in ArrayEntries :
          Holds(Entities, 0, cfg.output.accepted_items[k])
            = {<< RowValue(0, k) >>}
    /\ \E k \in ArrayEntries :
          Holds(Entities, 0, cfg.output.accepted_items[k])
            # Holds(before_read, 0, cfg.output.accepted_items[k])
    /\ SystemUntouched(NumSystems - 1)

\* every place a value of a system can be stored at, named as a schema
\* entry would name it
AllItems ==
    { Item("pH", "pH"), Item("pe", "pe"), Item("Ca", "Component"),
      Item("H", "Component"), Item("Calcite", "EquilibriumPhase"),
      Item("Pyrite", "KineticReactant"), Item("sv", "SecondaryVariable") }

\* the schema names the place
InSchema(item) ==
    \E k \in 1 .. Len(cfg.output.accepted_items) :
        cfg.output.accepted_items[k] = item

\* storing the value v for the schema entry of the system local_id, from
\* the entities as they are, changes the place the entry names and no other
OneTarget(local_id, item, v) ==
    LET before ==
            [aqueous_solutions |-> aqueous_solutions,
             equilibrium_phases |-> equilibrium_phases,
             kinetic_reactants |-> kinetic_reactants,
             secondary_variables |-> secondary_variables,
             fatal |-> NoFatal]
        after == RouteItem(before, local_id,
                           cfg.chemical_system_map[local_id], item, v,
                           "ignore")
    IN  /\ after.fatal = NoFatal
        /\ Holds(after, local_id, item) = {<< v >>}
        /\ \A j \in Systems :
              \A other \in AllItems :
                  << j, other >> # << local_id, item >>
                      => Holds(after, j, other) = Holds(before, j, other)

\* C17: value routing by item type.  Each accepted value at schema position
\* k of the row of the system local_id overwrites exactly one target: the
\* pH or the pe of the solution at local_id, the amount of the component
\* the entry names in that solution, or the entry at global_id of the named
\* equilibrium phase, kinetic reactant or secondary variable; every other
\* entity value is left as it was.  After a well-formed table is read every
\* target holds the value of its row and column, and what no schema entry
\* names is unchanged.
C17_RoutingByItemType ==
    /\ SchemaResolves =>
          \A i \in Systems :
              \A k \in 1 .. Len(cfg.output.accepted_items) :
                  \A v \in Vals :
                      OneTarget(i, cfg.output.accepted_items[k], v)
    /\ pc \in {"update", "done"} /\ RowsWellFormed =>
          \A i \in Systems :
              /\ \A k \in 1 .. Len(cfg.output.accepted_items) :
                    Holds(Entities, i, cfg.output.accepted_items[k])
                      = {<< RowValue(i, k) >>}
              /\ \A other \in AllItems :
                    ~InSchema(other) =>
                        Holds(Entities, i, other) = Holds(before_read, i, other)

C17_Witness ==
    /\ pc = "done" /\ RowsWellFormed
    /\ cfg.output.accepted_items = SchemaSolids
    /\ cfg.chemical_system_map[0] # 0
    /\ \A i \in Systems :
          \A k \in 1 .. 3 :
              Holds(Entities, i, SchemaSolids[k]) = {<< RowValue(i, k) >>}
    /\ \A i \in Systems :
          \E k \in 1 .. 3 :
              Holds(Entities, i, SchemaSolids[k])
                # Holds(before_read, i, SchemaSolids[k])
    /\ aqueous_solutions = before_read.aqueous_solutions

\* the line of the table (the headline being line 0) that the claim names
\* as the data row of the system local_id
LineOfRow(local_id) ==
    LET skipped == IF cfg.surface THEN 2 ELSE 1
    IN  1 + local_id * (skipped + 1) + skipped

HasLine(n) == n + 1 <= Len(result_file)

\* the line holds the tokens the schema and the drop-set ask for
LineWellFormed(n) ==
    /\ HasLine(n)
    /\ Len(result_file[n + 1]) = ExpectedTokens
    /\ AllNumbers(result_file[n + 1])

\* the entities of the system hold the numbers of line n of the table
HoldsLine(local_id, n) ==
    \A k \in 1 .. Len(cfg.output.accepted_items) :
        Holds(Entities, local_id, cfg.output.accepted_items[k])
            = {<< result_file[n + 1][KeptColumn(k) + 1].val >>}

\* C18: result-table line consumption.  The deserializer discards the
\* headline and then, for each system in local_id order, s lines (1 without
\* surface sites, 2 with them) and takes the next line as the data row of
\* the system: line 1 + local_id * (s + 1) + s of the file.  Where that
\* line is missing the read is aborted with an error that names the
\* system, the systems before it hold their rows, and no later one is
\* written.
C18_LineConsumption ==
    ReadRan /\ SchemaResolves =>
        \A i \in Systems :
            (\A j \in 0 .. (i - 1) : LineWellFormed(LineOfRow(j))) =>
                /\ LineWellFormed(LineOfRow(i)) => HoldsLine(i, LineOfRow(i))
                /\ ~HasLine(LineOfRow(i)) =>
                      /\ pc = "aborted" /\ fatal.what = "no_row"
                      /\ fatal.system = cfg.chemical_system_map[i]
                      /\ \A j \in i .. (NumSystems - 1) : SystemUntouched(j)

C18_Witness ==
    /\ ReadRan /\ SchemaResolves /\ cfg.surface
    /\ cfg.chemical_system_map[NumSystems - 1] # NumSystems - 1
    /\ \A j \in 0 .. (NumSystems - 2) :
          /\ LineWellFormed(LineOfRow(j))
          /\ HoldsLine(j, LineOfRow(j))
          /\ ~HoldsLine(j, LineOfRow(j) - 1)
    /\ ~HasLine(LineOfRow(NumSystems - 1))
    /\ fatal = Fatal("no_row", cfg.chemical_system_map[NumSystems - 1], -1)

\* the first column (from 0) of the line that is not dropped and does not
\* hold the text of a number of the kinds given, -1 if there is none
FirstBad(line, kinds) ==
    LET bad == { c \in 0 .. (Len(line) - 1) :
                   /\ c \notin cfg.output.dropped_item_ids
                   /\ line[c + 1].kind \in kinds }
    IN  IF bad = {} THEN -1
        ELSE CHOOSE c \in bad : \A d \in bad : c <= d

\* where the rows before it are read and stored and the data row of a system
\* holds a text of the kinds in a column not dropped, the read is
\* aborted with an error that reports the text, the system and the column,
\* and nothing of the row is stored
BadTokenFatal(kinds) ==
    ReadRan =>
        \A i \in Systems :
            /\ i = 0 \/ SchemaResolves
            /\ \A j \in 0 .. (i - 1) : LineWellFormed(LineOfRow(j))
            /\ HasLine(LineOfRow(i))
            /\ FirstBad(result_file[LineOfRow(i) + 1], kinds) >= 0
            => LET line == result_file[LineOfRow(i) + 1]
                   c == FirstBad(line, kinds)
               IN  /\ pc = "aborted"
                   /\ fatal.what \in {"invalid_argument", "out_of_range"}
                   /\ fatal.token = line[c + 1]
                   /\ fatal.system = cfg.chemical_system_map[i]
                   /\ fatal.column = c
                   /\ \A j \in i .. (NumSystems - 1) : SystemUntouched(j)

\* C19: conversion failure.  Every token of a data row in a column that is
\* not dropped and that is not a number, a number followed by other
\* characters included, is a fatal error that reports the token, the system
\* and the column; no such token is stored as an entity value.
C19_ConversionFailureFatal == BadTokenFatal(BadKinds)

\* the part of C19 the code keeps: a text std::stod finds no number at the
\* start of, or a number no double holds
C19_NoLeadingNumberFatal == BadTokenFatal({"junk", "huge"})

\* the transport vectors as the operation was called with them: the setting
\* pass is the first statement of both operations
VectorsAtCall ==
    IF passes = << >> THEN process_solutions ELSE passes[1].called_with

\* the updating pass has run
UpdateRan == Ran("update")

\* operator>> went through the rows of all systems and reported no error
AllSystemsRead ==
    /\ ReadRan
    /\ fatal = NoFatal
    /\ Len(result_file) >= 1 + NumSystems * (num_skipped_lines + 1)

\* C21: no partial update of transport state on failure.  When an operation
\* is aborted at any stage, no entry of a transport vector differs from what
\* the operation was called with and the updating pass has not run; the
\* vectors are written only once the rows of all systems have been read with
\* no error.
C21_NoPartialUpdateOnFailure ==
    /\ (op # "none" /\ pc = "aborted")
          => /\ process_solutions = VectorsAtCall
             /\ ~UpdateRan
    /\ (process_solutions # VectorsAtCall \/ UpdateRan)
          => pc = "done" /\ AllSystemsRead

\* the read is aborted at a later system after the values of an earlier
\* system have been stored, and the vectors are as they were
C21_Witness ==
    /\ op # "none" /\ pc = "aborted"
    /\ ReadRan /\ fatal.what \in {"no_row", "invalid_argument"}
    /\ fatal.system = cfg.chemical_system_map[NumSystems - 1]
    /\ aqueous_solutions # before_read.aqueous_solutions
    /\ process_solutions = VectorsAtCall
    /\ \E p \in ProcessIds, g \in Systems :
          process_solutions[p][g] # aqueous_solutions[0].components[1].amount

\* the process-to-component map has an entry named "H"
HydrogenMapped ==
    \E k \in 1 .. Len(cfg.entities.process_map) :
        cfg.entities.process_map[k][2] = "H"

\* C22: hydrogen write-back.  After the updating pass the transport vector
\* of every process the map names "H" holds 10^(-pH) of each system at the
\* system's global id, whatever the amount of a component named "H" is.
C22_HydrogenWriteBack ==
    UpdateRan =>
        \A i \in Systems :
            VectorsHold("H", i, Pow10Neg(aqueous_solutions[i].pH))

\* an operation is done on solutions that hold a component "H" whose amount
\* read from the table is not 10^(-pH), at a global id that is not the local
\* id, and the vector entry has changed
C22_Witness ==
    /\ pc = "done" /\ HydrogenMapped
    /\ cfg.chemical_system_map[0] # 0
    /\ \E k \in 1 .. Len(aqueous_solutions[0].components) :
          /\ aqueous_solutions[0].components[k].name = "H"
          /\ aqueous_solutions[0].components[k].amount
                # Pow10Neg(aqueous_solutions[0].pH)
          /\ aqueous_solutions[0].components[k].amount
                # before_read.aqueous_solutions[0].components[k].amount
    /\ process_solutions[1][cfg.chemical_system_map[0]]
          = Pow10Neg(aqueous_solutions[0].pH)
    /\ process_solutions[1] # VectorsAtCall[1]

\* the solution of the system local_id has a component of the name
IsComponentOf(local_id, name) ==
    \E k \in 1 .. Len(aqueous_solutions[local_id].components) :
        aqueous_solutions[local_id].components[k].name = name

\* the entry g of the vector of process p is one the frame lets an operation
\* change: p is mapped to a component of a system or to "H" and g is the
\* global id of that system
MayChange(p, g) ==
    \E k \in 1 .. Len(cfg.entities.process_map), i \in Systems :
        /\ cfg.entities.process_map[k][1] = p
        /\ g = cfg.chemical_system_map[i]
        /\ \/ cfg.entities.process_map[k][2] = "H"
           \/ IsComponentOf(i, cfg.entities.process_map[k][2])

\* until the updating pass runs the vectors are as the operation was called
\* with them: the setting pass has written none of their entries
SetPassWritesNothing == ~UpdateRan => process_solutions = VectorsAtCall

\* a complete operation has changed no entry outside the frame
OperationKeepsFrame ==
    pc = "done" =>
        \A p \in ProcessIds, g \in Nodes :
            ~MayChange(p, g) => process_solutions[p][g] = VectorsAtCall[p][g]

\* the process the setting pass visits last among those mapped to the name
LastProcessOf(name) ==
    LET ks == { k \in 1 .. Len(cfg.entities.process_map) :
                  cfg.entities.process_map[k][2] = name }
    IN  cfg.entities.process_map[CHOOSE k \in ks : \A j \in ks : j <= k][1]

\* after a complete operation every process mapped to a component of the
\* names given that no schema entry names holds, at the global id of each
\* system, the value the setting pass took for that component
AbsentWrittenBack(names) ==
    pc = "done" =>
        \A k \in 1 .. Len(cfg.entities.process_map), i \in Systems :
            LET p == cfg.entities.process_map[k][1]
                name == cfg.entities.process_map[k][2]
                g == cfg.chemical_system_map[i]
            IN  /\ name \in names
                /\ IsComponentOf(i, name)
                /\ ~InSchema(Item(name, "Component"))
                => process_solutions[p][g]
                     = VectorsAtCall[LastProcessOf(name)][g]

Compared == less # << >>

\* the coordinates are unequal as T compares them (x != y): NaN is unequal
\* to every value
Differ(x, y) == x.nan \/ y.nan \/ x.val # y.val

\* at the first dimension where a and b differ, a's coordinate is smaller
FirstDifferenceSmaller(a, b) ==
    \E i \in 0 .. (DIM - 1) :
        /\ Differ(a[i], b[i])
        /\ \A j \in 0 .. (i - 1) : ~Differ(a[j], b[j])
        /\ Lt(a[i], b[i])

\* what operator< returned makes a strict lexicographic order of the three
\* points
StrictLexicographic ==
    /\ less.ab = FirstDifferenceSmaller(points.a, points.b)
    /\ less.ba = FirstDifferenceSmaller(points.b, points.a)
    /\ ~less.aa
    /\ ~(less.ab /\ less.ba)
    /\ less.ab /\ less.bc => less.ac
    /\ (\A i \in 0 .. (DIM - 1) : ~Differ(points.a[i], points.b[i]))
          => ~less.ab /\ ~less.ba

\* C24: operator< on TemplatePoint is the strict lexicographic order of the
\* coordinates.  a < b holds exactly when a's coordinate is smaller at the
\* first dimension where a and b differ; the relation is irreflexive,
\* asymmetric and transitive, and of two points with all coordinates equal
\* neither is less than the other.
C24_StrictLexicographicOrder == Compared => StrictLexicographic

\* no coordinate of the point is NaN
Ordered(p) == \A i \in 0 .. (DIM - 1) : ~p[i].nan

\* the part of C24 the code keeps: the same on points without NaN
C24_LexicographicOnNumbers ==
    Compared /\ Ordered(points.a) /\ Ordered(points.b) /\ Ordered(points.c)
        => StrictLexicographic

\* with NaN among the coordinates the relation is still irreflexive and
\* asymmetric
C24_IrreflexiveAsymmetric ==
    Compared => ~less.aa /\ ~(less.ab /\ less.ba)

\* the order is decided at a later dimension: the points agree on the first
C24_NumbersCase ==
    /\ Compared
    /\ Ordered(points.a) /\ Ordered(points.b) /\ Ordered(points.c)
    /\ points.a[0] = points.b[0] /\ points.b[0] = points.c[0]
    /\ less.ab /\ less.bc /\ less.ac

====
